---------------------------- MODULE Spec2Model ----------------------------
(***************************************************************************)
(* A model of the grovebook editor bridge (src/extension.js).              *)
(*                                                                         *)
(* Texts are sequences of characters; a character is a one-character       *)
(* string, except the four characters below that a TLA+ string literal     *)
(* cannot hold or that read badly in a trace.                              *)
(***************************************************************************)
EXTENDS Integers, Sequences, FiniteSets, TLC

VARIABLES
    \* ---- path codec runs (SpecPath)
    pathIn,      \* the (origin, remote path) pair handed to createLocalFilePath
    pathLocal,   \* the local file path createLocalFilePath returned
    pathOut,     \* what parseLocalFilePath returned for pathLocal
    pathPc,      \* "idle" | "input" | "encoded" | "decoded" | "saved" | "savedOther"
    pathUpload,  \* what handleDocumentSave did for the file saved last
    \* ---- format conversion runs (SpecConv)
    convIn,      \* the blocks of the remote document handed to convertGroveToMd
    convMd,      \* what convertGroveToMd returned
    convOut,     \* what convertMdToGrove returned for that markdown
    convPc,      \* "idle" | "input" | "decoded" | "encoded"
    \* ---- version comparison runs (SpecVersion)
    verIn,       \* the (version, minVersion) pair handed to isVersionAtLeast
    verOut,      \* what isVersionAtLeast returned for it
    verPc,       \* "idle" | "input" | "compared"
    \* ---- markdown encoding runs (SpecEncode)
    mdIn,        \* the paragraphs of the markdown handed to convertMdToGrove
    mdOut,       \* what convertMdToGrove returned for it
    mdPc,        \* "idle" | "input" | "encoded" | "again"
    mdPrev,      \* what the conversion before the latest one returned
    \* ---- migration of the API keys (SpecMigrate)
    globalState,     \* what globalState holds under MIGRATION_COMPLETE_KEY
    apiKeysSetting,  \* the grovebook.apiKeys map of the settings: its entries [origin, apiKey]
    migration,       \* the migrateApiKeys run of this session
    \* ---- code mode runs (SpecMode)
    modeIn,      \* the code mode or language tag handed to the alias functions
    modeMd,      \* what convertCodeModeToMd returned
    modeGrove,   \* what convertCodeModeMdToGrove returned
    modePc,      \* "idle" | "input" | "md" | "grove" | "fromMd"
    \* ---- deep links (SpecUri)
    pendingFile,    \* what globalState holds under PENDING_FILE_KEY: <<>> or <<[baseUrl, filePath]>>
    inbox,          \* the URIs the operating system delivered that no window handled yet
    delayed,        \* the URIs whose handleUri run waits in delay(500)
    windowsOpened,  \* how many vscode.openFolder commands ran
    retriggers,     \* deep link -> how many URIs openExternal re-triggered for it
    openRequests,   \* the openGroveFile calls made for deep links, oldest first
    arrived         \* how many deep links arrived

pathVars == <<pathIn, pathLocal, pathOut, pathPc, pathUpload>>

convVars == <<convIn, convMd, convOut, convPc>>

verVars == <<verIn, verOut, verPc>>

mdVars == <<mdIn, mdOut, mdPc, mdPrev>>

migVars == <<globalState, apiKeysSetting, migration>>

modeVars == <<modeIn, modeMd, modeGrove, modePc>>

uriVars ==
    <<pendingFile, inbox, delayed, windowsOpened, retriggers, openRequests, arrived>>

-----------------------------------------------------------------------------
(* Characters and JavaScript values                                        *)

BT == "BT"      \* the backtick character
NL == "\n"      \* line feed
DQ == "\""      \* double quote
BS == "\\"      \* backslash

\* JavaScript values that are not strings are one- or two-element sequences
\* whose first element is no character, so they differ from every text.
Undef == <<"#undefined">>
Null == <<"#null">>
True == <<"#true">>
False == <<"#false">>

Letters ==
    { "a", "b", "c", "d", "e", "f", "g", "h", "i", "j", "k", "l", "m",
      "n", "o", "p", "q", "r", "s", "t", "u", "v", "w", "x", "y", "z",
      "A", "B", "C", "D", "E", "F", "G", "H", "I", "J", "K", "L", "M",
      "N", "O", "P", "Q", "R", "S", "T", "U", "V", "W", "X", "Y", "Z" }

Digits == { "0", "1", "2", "3", "4", "5", "6", "7", "8", "9" }

\* \w of a JavaScript regular expression
IsWordChar(c) == c \in Letters \cup Digits \cup { "_" }

\* what '.' of a JavaScript regular expression does not match
IsLineTerminator(c) == c \in { NL, "\r" }

\* what String.prototype.trim removes
IsWhiteSpace(c) == c \in { " ", NL, "\t", "\r", "\f" }

-----------------------------------------------------------------------------
(* String primitives of JavaScript, on texts. Positions are 1-based.       *)

\* Recursion below runs once per occurrence, segment or block, never once
\* per character.

Min(S) == CHOOSE x \in S : \A y \in S : x <= y

Max(S) == CHOOSE x \in S : \A y \in S : x >= y

\* the least element of S, or d when S is empty
MinOr(S, d) == IF S = {} THEN d ELSE Min(S)

\* text has pat at position i
HasAt(text, i, pat) ==
    /\ i >= 1
    /\ i + Len(pat) - 1 <= Len(text)
    /\ \A k \in 1..Len(pat) : text[i + k - 1] = pat[k]

\* String.prototype.indexOf(pat, from): the first position >= from, or 0
IndexOfFrom(text, pat, from) ==
    MinOr({ i \in from..(Len(text) - Len(pat) + 1) : HasAt(text, i, pat) }, 0)

\* String.prototype.includes
Includes(text, pat) == IndexOfFrom(text, pat, 1) # 0

\* String.prototype.replace(pat, rep) with a string pattern: first occurrence
ReplaceFirst(text, pat, rep) ==
    LET At(i) ==
            IF i = 0 THEN text
            ELSE SubSeq(text, 1, i - 1) \o rep
                 \o SubSeq(text, i + Len(pat), Len(text))
    IN  At(IndexOfFrom(text, pat, 1))

\* String.prototype.replaceAll(pat, rep) and replace(/pat/g, rep) for a
\* literal non-empty pattern: occurrences left to right, not overlapping
RECURSIVE ReplaceAllFrom(_, _, _, _)
ReplaceAllFrom(text, pat, rep, from) ==
    LET At(i) ==
            IF i = 0 THEN SubSeq(text, from, Len(text))
            ELSE SubSeq(text, from, i - 1) \o rep
                 \o ReplaceAllFrom(text, pat, rep, i + Len(pat))
    IN  At(IndexOfFrom(text, pat, from))

ReplaceAll(text, pat, rep) == ReplaceAllFrom(text, pat, rep, 1)

\* String.prototype.split(sep) for a one-character separator
RECURSIVE SplitFrom(_, _, _)
SplitFrom(text, sep, from) ==
    LET At(i) ==
            IF i = 0 THEN <<SubSeq(text, from, Len(text))>>
            ELSE <<SubSeq(text, from, i - 1)>> \o SplitFrom(text, sep, i + 1)
    IN  At(IndexOfFrom(text, <<sep>>, from))

Split(text, sep) == SplitFrom(text, sep, 1)

\* Array.prototype.join(sep), sep a text
RECURSIVE Join(_, _)
Join(parts, sep) ==
    IF Len(parts) = 0 THEN <<>>
    ELSE IF Len(parts) = 1 THEN parts[1]
    ELSE parts[1] \o sep \o Join(Tail(parts), sep)

\* Array.prototype.indexOf(x) as a 1-based position, or 0
ArrayIndexOf(parts, x) == MinOr({ i \in 1..Len(parts) : parts[i] = x }, 0)

\* Array.prototype.slice(from) with a 1-based start
SliceFrom(parts, from) ==
    IF from > Len(parts) THEN <<>> ELSE SubSeq(parts, from, Len(parts))

\* String.prototype.trim
Trim(text) ==
    LET Between(solid) ==
            IF solid = {} THEN <<>> ELSE SubSeq(text, Min(solid), Max(solid))
    IN  Between({ i \in 1..Len(text) : ~IsWhiteSpace(text[i]) })

-----------------------------------------------------------------------------
(* JavaScript values: coercions                                            *)

\* A number n >= 0 is <<"#num">> followed by its decimal digits.
IsNum(v) == Len(v) >= 2 /\ v[1] = "#num"

IsText(v) == v = <<>> \/ (v[1] \notin { "#undefined", "#null", "#true", "#false", "#num", "#object" })

DigitValue(c) ==
    CASE c = "0" -> 0 [] c = "1" -> 1 [] c = "2" -> 2 [] c = "3" -> 3
      [] c = "4" -> 4 [] c = "5" -> 5 [] c = "6" -> 6 [] c = "7" -> 7
      [] c = "8" -> 8 [] c = "9" -> 9

RECURSIVE DecimalValue(_)
DecimalValue(ds) ==
    IF ds = <<>> THEN 0
    ELSE 10 * DecimalValue(SubSeq(ds, 1, Len(ds) - 1)) + DigitValue(ds[Len(ds)])

IsDigits(text) == text # <<>> /\ \A i \in 1..Len(text) : text[i] \in Digits

\* ToBoolean
Truthy(v) ==
    /\ v \notin { Undef, Null, False, <<>> }
    /\ ~(IsNum(v) /\ DecimalValue(Tail(v)) = 0)

\* a ?? b
Coalesce(a, b) == IF a \in { Undef, Null } THEN b ELSE a

\* ToString, as a template literal applies it
ToStr(v) ==
    CASE v = Undef -> <<"u", "n", "d", "e", "f", "i", "n", "e", "d">>
      [] v = Null -> <<"n", "u", "l", "l">>
      [] v = True -> <<"t", "r", "u", "e">>
      [] v = False -> <<"f", "a", "l", "s", "e">>
      [] IsNum(v) -> Tail(v)
      [] OTHER -> v

\* The count String.prototype.repeat receives (ToIntegerOrInfinity)
ToCount(v) ==
    CASE IsNum(v) -> DecimalValue(Tail(v))
      [] v = True -> 1
      [] IsText(v) /\ IsDigits(v) -> DecimalValue(v)
      [] OTHER -> 0

Repeat(text, n) == [i \in 1..(n * Len(text)) |-> text[((i - 1) % Len(text)) + 1]]

\* the texts of parts[lo..hi] concatenated
RECURSIVE ConcatRange(_, _, _)
ConcatRange(parts, lo, hi) ==
    IF lo > hi THEN <<>>
    ELSE IF lo = hi THEN parts[lo]
    ELSE LET mid == (lo + hi) \div 2
         IN  ConcatRange(parts, lo, mid) \o ConcatRange(parts, mid + 1, hi)

Concat(parts) == ConcatRange(parts, 1, Len(parts))

-----------------------------------------------------------------------------
(* JSON.stringify and JSON.parse, for objects of strings, booleans, null   *)
(* and non-negative integers (no arrays, signs, fractions, exponents, \u)  *)

JsonEscapeChar(c) ==
    CASE c = DQ -> <<BS, DQ>>
      [] c = BS -> <<BS, BS>>
      [] c = NL -> <<BS, "n">>
      [] c = "\t" -> <<BS, "t">>
      [] c = "\r" -> <<BS, "r">>
      [] c = "\f" -> <<BS, "f">>
      [] OTHER -> <<c>>

JsonQuote(text) ==
    <<DQ>> \o Concat([i \in 1..Len(text) |-> JsonEscapeChar(text[i])]) \o <<DQ>>

\* JSON.stringify of a value that is not undefined
JsonValue(v) == IF IsText(v) THEN JsonQuote(v) ELSE ToStr(v)

\* JSON.stringify of an object given as <<key, value>> pairs in property
\* order: a property whose value is undefined is left out
JsonStringifyObject(pairs) ==
    LET Members(kept) ==
            [i \in 1..Len(kept) |->
                JsonQuote(kept[i][1]) \o <<":">> \o JsonValue(kept[i][2])]
    IN  <<"{">>
        \o Join(Members(SelectSeq(pairs, LAMBDA p : p[2] # Undef)), <<",">>)
        \o <<"}">>

\* the first position >= i that holds no JSON white space, or Len + 1
SkipWs(text, i) ==
    MinOr({ k \in i..Len(text) : text[k] \notin { " ", NL, "\t", "\r" } },
          Len(text) + 1)

JsonFail == [ok |-> FALSE, kind |-> "none", val |-> Undef, pairs |-> <<>>, next |-> 0]

JsonPrim(v, next) == [ok |-> TRUE, kind |-> "prim", val |-> v, pairs |-> <<>>, next |-> next]

\* the quote at k closes the string opened at j: an even number of
\* backslashes stands right before it
ClosesString(text, j, k) ==
    /\ text[k] = DQ
    /\ LET before == { m \in j..(k - 1) : text[m] # BS }
       IN  ((k - 1 - Max(before)) % 2) = 0

UnescapeChar(c) ==
    CASE c = "n" -> NL [] c = "t" -> "\t" [] c = "r" -> "\r"
      [] c = "f" -> "\f" [] OTHER -> c

\* raw string content to text; ok is FALSE for an escape JSON does not know
\* (or \u and \b, which the model leaves out)
RECURSIVE JsonUnescapeFrom(_, _)
JsonUnescapeFrom(raw, from) ==
    LET At(i) ==
            IF i = 0 THEN [ok |-> TRUE, text |-> SubSeq(raw, from, Len(raw))]
            ELSE IF i = Len(raw) \/ raw[i + 1] \notin { DQ, BS, "/", "n", "t", "r", "f" }
            THEN [ok |-> FALSE, text |-> <<>>]
            ELSE LET Before(rest) ==
                         [ok |-> rest.ok,
                          text |-> SubSeq(raw, from, i - 1)
                                   \o <<UnescapeChar(raw[i + 1])>> \o rest.text]
                 IN  Before(JsonUnescapeFrom(raw, i + 2))
    IN  At(IndexOfFrom(raw, <<BS>>, from))

\* a string whose opening quote is at j
JsonParseString(text, j) ==
    LET Unescaped(k, raw, un) ==
            IF (\E m \in 1..Len(raw) : raw[m] \in { NL, "\t", "\r", "\f" }) \/ ~un.ok
            THEN JsonFail
            ELSE JsonPrim(un.text, k + 1)
        Raw(k, raw) == Unescaped(k, raw, JsonUnescapeFrom(raw, 1))
        ClosedAt(k) ==
            IF k = 0 THEN JsonFail ELSE Raw(k, SubSeq(text, j + 1, k - 1))
    IN  ClosedAt(MinOr({ k \in (j + 1)..Len(text) : ClosesString(text, j, k) }, 0))

\* a non-negative integer starting at j
JsonParseNumber(text, j) ==
    LET Number(end, ds) ==
            IF ds = <<>> \/ (Len(ds) > 1 /\ ds[1] = "0") THEN JsonFail
            ELSE IF end <= Len(text) /\ text[end] \in { ".", "e", "E" } THEN JsonFail
            ELSE JsonPrim(<<"#num">> \o ds, end)
        EndsAt(end) == Number(end, SubSeq(text, j, end - 1))
    IN  EndsAt(MinOr({ k \in j..Len(text) : text[k] \notin Digits }, Len(text) + 1))

RECURSIVE JsonParseValue(_, _)
RECURSIVE JsonParseMembers(_, _, _)

\* the members of an object, from position i (a key is expected there)
JsonParseMembers(text, i, acc) ==
    LET AfterValue(v, e, members) ==
            IF ~v.ok \/ e > Len(text) THEN JsonFail
            ELSE IF text[e] = "}"
            THEN [ok |-> TRUE, kind |-> "object", val |-> Undef,
                  pairs |-> members, next |-> e + 1]
            ELSE IF text[e] = ","
            THEN JsonParseMembers(text, e + 1, members)
            ELSE JsonFail
        Value(key, v) ==
            AfterValue(v, IF v.ok THEN SkipWs(text, v.next) ELSE 0,
                       Append(acc, <<key.val, IF v.ok /\ v.kind = "object"
                                              THEN <<"#object">> ELSE v.val>>))
        AfterKey(key, c) ==
            IF ~key.ok \/ c > Len(text) \/ text[c] # ":" THEN JsonFail
            ELSE Value(key, JsonParseValue(text, c + 1))
        Key(key) == AfterKey(key, IF key.ok THEN SkipWs(text, key.next) ELSE 0)
        At(j) ==
            IF j > Len(text) \/ text[j] # DQ THEN JsonFail
            ELSE Key(JsonParseString(text, j))
    IN  At(SkipWs(text, i))

JsonParseValue(text, i) ==
    LET Object(j, k) ==
            IF k <= Len(text) /\ text[k] = "}"
            THEN [ok |-> TRUE, kind |-> "object", val |-> Undef, pairs |-> <<>>, next |-> k + 1]
            ELSE JsonParseMembers(text, j + 1, <<>>)
        At(j) ==
            IF j > Len(text) THEN JsonFail
            ELSE IF text[j] = DQ THEN JsonParseString(text, j)
            ELSE IF text[j] = "{" THEN Object(j, SkipWs(text, j + 1))
            ELSE IF HasAt(text, j, <<"t", "r", "u", "e">>) THEN JsonPrim(True, j + 4)
            ELSE IF HasAt(text, j, <<"f", "a", "l", "s", "e">>) THEN JsonPrim(False, j + 5)
            ELSE IF HasAt(text, j, <<"n", "u", "l", "l">>) THEN JsonPrim(Null, j + 4)
            ELSE IF text[j] \in Digits THEN JsonParseNumber(text, j)
            ELSE JsonFail
    IN  At(SkipWs(text, i))

\* JSON.parse(text): ok is FALSE where JSON.parse throws a SyntaxError
JsonParse(text) ==
    LET Whole(v) ==
            IF v.ok /\ SkipWs(text, v.next) = Len(text) + 1 THEN v ELSE JsonFail
    IN  Whole(JsonParseValue(text, 1))

\* obj.key of a parsed object: the last member of that name, else undefined
GetProperty(pairs, key) ==
    LET Last(hits) == IF hits = {} THEN Undef ELSE pairs[Max(hits)][2]
    IN  Last({ i \in 1..Len(pairs) : pairs[i][1] = key })

-----------------------------------------------------------------------------
(* Format conversion                                                       *)

KeyPinCode == <<"p", "i", "n", "C", "o", "d", "e">>
KeyDname == <<"d", "n", "a", "m", "e">>
KeyCodeMode == <<"c", "o", "d", "e", "M", "o", "d", "e">>
KeyHide == <<"h", "i", "d", "e">>
TypeCodeTool == <<"c", "o", "d", "e", "T", "o", "o", "l">>
TypeHeader == <<"h", "e", "a", "d", "e", "r">>
TypeParagraph == <<"p", "a", "r", "a", "g", "r", "a", "p", "h">>
ModeJavascript2 == <<"j", "a", "v", "a", "s", "c", "r", "i", "p", "t", "2">>
TagJs == <<"j", "s">>
Fence == <<BT, BT, BT>>
CommentOpen == <<"<", "!", "-", "-">>
CommentClose == <<"-", "-", ">">>
GroveFormatVersion == <<"2", ".", "1", "9", ".", "1">>

\* A block of a remote document is a record of
\*   type                      the block's type tag
\*   hasData, hasCodeData      whether block.data and block.data.codeData exist
\*   value, pinCode, dname, codeMode, hide     the fields of data.codeData
\*   level, text               the fields of data
\* with Undef for a field the block does not have.
CodeToolBlock(value, pinCode, dname, codeMode, hide) ==
    [type |-> TypeCodeTool, hasData |-> TRUE, hasCodeData |-> TRUE,
     value |-> value, pinCode |-> pinCode, dname |-> dname,
     codeMode |-> codeMode, hide |-> hide, level |-> Undef, text |-> Undef]

TextBlock(type, level, text) ==
    [type |-> type, hasData |-> TRUE, hasCodeData |-> FALSE,
     value |-> Undef, pinCode |-> Undef, dname |-> Undef,
     codeMode |-> Undef, hide |-> Undef, level |-> level, text |-> text]

convertCodeModeToMd(codeMode) ==
    IF codeMode = ModeJavascript2 THEN TagJs ELSE codeMode

\* a language tag taken as a mode as it stands
convertCodeModeMdToGrove_Identity(codeMode) == codeMode

convertCodeModeMdToGrove(codeMode) ==
    IF codeMode = TagJs THEN ModeJavascript2 ELSE codeMode

\* The callback of blocks.map: what one block renders as. threw is TRUE
\* where the code raises a TypeError (a property read of undefined).
RenderBlock(block) ==
    IF ~block.hasData \/ (block.type = TypeCodeTool /\ ~block.hasCodeData)
    THEN [threw |-> TRUE, md |-> Undef]
    ELSE IF block.type = TypeCodeTool
    THEN LET cellOptions == << <<KeyPinCode, block.pinCode>>, <<KeyDname, block.dname>>,
                               <<KeyCodeMode, block.codeMode>>, <<KeyHide, block.hide>> >>
             cellOptionsStr == CommentOpen \o JsonStringifyObject(cellOptions) \o CommentClose
         IN  [threw |-> FALSE,
              md |-> cellOptionsStr \o <<NL>> \o Fence
                     \o ToStr(convertCodeModeToMd(block.codeMode)) \o <<NL>>
                     \o ToStr(block.value) \o <<NL>> \o Fence]
    ELSE IF block.type = TypeHeader
    THEN [threw |-> FALSE,
          md |-> Repeat(<<"#">>, ToCount(block.level)) \o <<" ">> \o ToStr(block.text)]
    ELSE IF block.type = TypeParagraph
    THEN [threw |-> FALSE, md |-> block.text]
    ELSE [threw |-> FALSE, md |-> IF Truthy(block.text) THEN block.text ELSE <<>>]

\* The result is [threw, text]: text is the markdown when threw is FALSE.
convertGroveToMd(blocks) ==
    LET Joined(kept) ==
            Join([i \in 1..Len(kept) |-> ToStr(kept[i].md)], <<NL, NL>>)
        Rendered(mdBlocks) ==
            IF \E i \in 1..Len(blocks) : mdBlocks[i].threw
            THEN [threw |-> TRUE, text |-> <<>>]
            ELSE [threw |-> FALSE,
                  text |-> Joined(SelectSeq(mdBlocks, LAMBDA r : Truthy(r.md)))]
    IN  Rendered([i \in 1..Len(blocks) |-> RenderBlock(blocks[i])])

\* One attempt of codeBlockRegex at position i:
\*   /(?:<!--(.*)-->\n)?```(\w+)?\n([\s\S]*?)```/
\* fence is where the opening fence would stand, options the text of group 1
\* (Undef when the comment took no part in the match).
NoMatch == [ok |-> FALSE, options |-> Undef, lang |-> Undef, content |-> <<>>, end |-> 0]

FenceMatchAt(text, fence, options) ==
    LET Closed(q, w, close) ==
            IF w > Len(text) \/ text[w] # NL \/ close = 0 THEN NoMatch
            ELSE [ok |-> TRUE, options |-> options,
                  lang |-> IF w = q THEN Undef ELSE SubSeq(text, q, w - 1),
                  content |-> SubSeq(text, w + 1, close - 1),
                  end |-> close + 3]
        Tagged(q, w) ==
            Closed(q, w, IF w <= Len(text) THEN IndexOfFrom(text, Fence, w + 1) ELSE 0)
        Opened(q) ==
            Tagged(q, MinOr({ k \in q..Len(text) : ~IsWordChar(text[k]) }, Len(text) + 1))
    IN  IF ~HasAt(text, fence, Fence) THEN NoMatch ELSE Opened(fence + 3)

\* '.*' holds no line terminator and '-->\n' follows it, so the comment of a
\* match that starts at i ends at the first line terminator after "<!--".
MatchAt(text, i) ==
    LET Comment(lineEnd) ==
            IF lineEnd = 0 \/ text[lineEnd] # NL \/ lineEnd - 3 < i + 4
               \/ ~HasAt(text, lineEnd - 3, CommentClose)
            THEN NoMatch
            ELSE FenceMatchAt(text, lineEnd + 1, SubSeq(text, i + 4, lineEnd - 4))
    IN  IF HasAt(text, i, CommentOpen)
        THEN Comment(MinOr({ k \in (i + 4)..Len(text) : IsLineTerminator(text[k]) }, 0))
        ELSE FenceMatchAt(text, i, Undef)

\* codeBlockRegex.exec with lastIndex = from - 1: the leftmost match
NextMatch(text, from) ==
    LET Leftmost(i) == IF i = 0 THEN NoMatch ELSE MatchAt(text, i)
    IN  Leftmost(MinOr({ i \in from..Len(text) : MatchAt(text, i).ok }, 0))

\* a generator that returns one identifier over and over
RandomUUID_Same(n) == <<"#uuid", "0">>

\* crypto.randomUUID(): the n-th identifier drawn, a string that stands for
\* its 36 characters; no two draws are equal
RandomUUID(n) == <<"#uuid", ToString(n)>>

\* The block built from one match. threw is TRUE where reading a property of
\* cellOptions raises a TypeError (the comment parsed to null).
BlockOfMatch(match, uuid) ==
    LET Block(isNull, fromTag, fromOptions, pinCode, dname, hide) ==
            [threw |-> isNull,
             usedUuid |-> dname \in { Undef, Null },
             type |-> TypeCodeTool,
             value |-> Trim(match.content),
             pinCode |-> Coalesce(pinCode, False),
             dname |-> Coalesce(dname, RandomUUID(uuid)),
             codeMode |-> IF Truthy(fromTag) THEN fromTag
                          ELSE IF Truthy(fromOptions) THEN fromOptions
                          ELSE ModeJavascript2,
             hide |-> Coalesce(hide, False)]
        Options(isNull, cellOptions) ==
            Block(isNull, convertCodeModeMdToGrove(match.lang),
                  GetProperty(cellOptions, KeyCodeMode),
                  GetProperty(cellOptions, KeyPinCode),
                  GetProperty(cellOptions, KeyDname),
                  GetProperty(cellOptions, KeyHide))
        Parsed(parsed) ==
            Options(parsed.ok /\ parsed.kind = "prim" /\ parsed.val = Null,
                    IF parsed.ok /\ parsed.kind = "object" THEN parsed.pairs ELSE <<>>)
        CellOptionsStr(cellOptionsStr) ==
            Parsed(IF Truthy(cellOptionsStr) THEN JsonParse(cellOptionsStr) ELSE JsonFail)
    IN  CellOptionsStr(match.options)

\* the while loop over codeBlockRegex.exec
RECURSIVE BlocksFrom(_, _, _)
BlocksFrom(text, from, uuid) ==
    LET Push(match, block) ==
            <<block>> \o BlocksFrom(text, match.end,
                                    IF block.usedUuid THEN uuid + 1 ELSE uuid)
        Exec(match) ==
            IF ~match.ok THEN <<>> ELSE Push(match, BlockOfMatch(match, uuid))
    IN  Exec(NextMatch(text, from))

\* uuid is the number of identifiers drawn so far. The result is
\* [threw, blocks, version, uuids]: uuids is the number drawn afterwards.
convertMdToGrove(mdContent, uuid) ==
    LET Document(blocks) ==
            [threw |-> \E i \in 1..Len(blocks) : blocks[i].threw,
             blocks |-> blocks,
             version |-> GroveFormatVersion,
             uuids |-> uuid + Cardinality({ i \in 1..Len(blocks) : blocks[i].usedUuid })]
    IN  Document(BlocksFrom(mdContent, 1, uuid + 1))

-----------------------------------------------------------------------------
(* Path utilities                                                          *)

EXTENSION_WORKING_DIR ==
    <<".", "k", "i", "n", "e", "v", "i", "z", "-", "g", "r", "o", "v", "e">>

\* os.homedir() of the machine the bridge runs on (POSIX: path.sep is "/")
HomeDir == <<"/", "h", "o", "m", "e", "/", "u">>

PathSep == "/"

\* path.normalize's walk over the segments: "" and "." dropped, ".." pops
RECURSIVE NormalizeSegments(_, _, _)
NormalizeSegments(segs, stack, absolute) ==
    IF segs = <<>> THEN stack
    ELSE LET s == Head(segs)
         IN  IF s = <<>> \/ s = <<".">>
             THEN NormalizeSegments(Tail(segs), stack, absolute)
             ELSE IF s = <<".", ".">>
             THEN IF stack # <<>> /\ stack[Len(stack)] # <<".", ".">>
                  THEN NormalizeSegments(Tail(segs),
                           SubSeq(stack, 1, Len(stack) - 1), absolute)
                  ELSE IF absolute
                  THEN NormalizeSegments(Tail(segs), stack, absolute)
                  ELSE NormalizeSegments(Tail(segs), Append(stack, s),
                                         absolute)
             ELSE NormalizeSegments(Tail(segs), Append(stack, s), absolute)

\* path.join(...parts) on POSIX: the non-empty parts joined by "/", normalized
PathJoin(parts) ==
    LET Normalized(joined, absolute, trailing, body) ==
            IF joined = <<>> THEN <<".">>
            ELSE IF body = <<>> THEN (IF absolute THEN <<PathSep>>
                                      ELSE IF trailing THEN <<".", PathSep>>
                                      ELSE <<".">>)
            ELSE (IF absolute THEN <<PathSep>> ELSE <<>>) \o body
                 \o (IF trailing THEN <<PathSep>> ELSE <<>>)
        Walk(joined, absolute) ==
            Normalized(joined, absolute,
                       joined # <<>> /\ joined[Len(joined)] = PathSep,
                       Join(NormalizeSegments(Split(joined, PathSep), <<>>,
                                              absolute), <<PathSep>>))
        Joined(joined) == Walk(joined, joined # <<>> /\ joined[1] = PathSep)
    IN  Joined(Join(SelectSeq(parts, LAMBDA p : p # <<>>), <<PathSep>>))

encodeBaseUrl(baseUrl) ==
    ReplaceAll(ReplaceFirst(baseUrl, <<":", "/", "/">>, <<"_", "_">>),
               <<":">>, <<"_">>)

decodeBaseUrl_FirstOnly(encodedBaseUrl) ==
    ReplaceFirst(encodedBaseUrl, <<"_", "_">>, <<":", "/", "/">>)

decodeBaseUrl(encodedBaseUrl) ==
    ReplaceAll(ReplaceFirst(encodedBaseUrl, <<"_", "_">>, <<":", "/", "/">>),
               <<"_">>, <<":">>)

encodeFilePath(filePath) == ReplaceAll(filePath, <<"/">>, <<"_", "_">>)

decodeFilePath(encodedFilePath) ==
    ReplaceAll(encodedFilePath, <<"_", "_">>, <<"/">>)

createLocalFilePath(baseUrl, filePath) ==
    PathJoin(<<HomeDir, EXTENSION_WORKING_DIR, encodeBaseUrl(baseUrl),
               encodeFilePath(filePath)>>)

\* An array element past the end or before the start is undefined.
ElementAt(parts, i) == IF i \in 1..Len(parts) THEN parts[i] ELSE Undef

\* The result is a record; threw is TRUE when the code raises a TypeError
\* (decodeBaseUrl of undefined, when no segment follows the anchor).
parseLocalFilePath(localFilePath) ==
    LET Parts(encodedBaseUrl, filePathParts) ==
            IF encodedBaseUrl = Undef
            THEN [threw |-> TRUE, projectId |-> Undef, fileName |-> Undef,
                  baseUrl |-> Undef]
            ELSE [threw |-> FALSE,
                  projectId |-> ElementAt(filePathParts, 5),
                  fileName |-> Join(SliceFrom(filePathParts, 6), <<"/">>),
                  baseUrl |-> decodeBaseUrl(encodedBaseUrl)]
        Encoded(encodedBaseUrl, encodedFilePath) ==
            Parts(encodedBaseUrl, Split(decodeFilePath(encodedFilePath), "/"))
        \* groveIndex is the 1-based position of the anchor; 0 models indexOf's -1
        Anchored(splitPath, groveIndex) ==
            Encoded(ElementAt(splitPath, groveIndex + 1),
                    Join(SliceFrom(splitPath, groveIndex + 2), <<"/">>))
        SplitPath(splitPath) ==
            Anchored(splitPath, ArrayIndexOf(splitPath, EXTENSION_WORKING_DIR))
    IN  SplitPath(Split(localFilePath, PathSep))

-----------------------------------------------------------------------------
(* Path codec runs: the inputs createLocalFilePath is applied to           *)

MaxNameSegments == 2

SchemeHttp == <<"h", "t", "t", "p">>
SchemeHttps == <<"h", "t", "t", "p", "s">>
HostLocalhost == <<"l", "o", "c", "a", "l", "h", "o", "s", "t">>
HostKineviz == <<"g", "r", "a", "p", "h", "x", "r", ".", "k", "i", "n", "e", "v", "i", "z", ".", "c", "o", "m">>
HostUnderscore == <<"m", "y", "_", "h", "o", "s", "t">>
Port3000 == <<"3", "0", "0", "0">>
GroveFilePrefix == <<"/", "a", "p", "i", "/", "g", "r", "o", "v", "e", "/", "f", "i", "l", "e", "/">>
ProjectAbc123 == <<"a", "b", "c", "1", "2", "3">>
ProjectUnderscore == <<"p", "_", "1">>
SegNotebooks == <<"n", "o", "t", "e", "b", "o", "o", "k", "s">>
SegDemo == <<"d", "e", "m", "o">>
SegDoubleUnderscore == <<"m", "y", "_", "_", "n", "b">>
SegTrailingUnderscore == <<"x", "_">>

MakeOrigin(scheme, hostname, port) ==
    scheme \o <<":", "/", "/">> \o hostname
    \o (IF port = <<>> THEN <<>> ELSE <<":">> \o port)

MakeRemotePath(projectId, nameSegments) ==
    GroveFilePrefix \o projectId \o <<"/">> \o Join(nameSegments, <<"/">>)

OriginLocalhost3000 == MakeOrigin(SchemeHttp, HostLocalhost, Port3000)
OriginKineviz == MakeOrigin(SchemeHttps, HostKineviz, <<>>)
RemotePathDemo == MakeRemotePath(ProjectAbc123, <<SegNotebooks, SegDemo>>)
RemotePathNotes == MakeRemotePath(ProjectAbc123, <<SegNotebooks>>)

NameSegmentChoices ==
    { SegNotebooks, SegDemo, SegDoubleUnderscore, SegTrailingUnderscore }

NameSegmentLists ==
    UNION { [1..n -> NameSegmentChoices] : n \in 1..MaxNameSegments }

PathInputs ==
    { [origin |-> MakeOrigin(s, h, p), host |-> h, port |-> p,
       path |-> MakeRemotePath(pid, segs)] :
        s \in { SchemeHttp, SchemeHttps },
        h \in { HostLocalhost, HostKineviz, HostUnderscore },
        p \in { <<>>, Port3000 },
        pid \in { ProjectAbc123, ProjectUnderscore },
        segs \in NameSegmentLists }

NoPathInput == [origin |-> <<>>, host |-> <<>>, port |-> <<>>, path |-> <<>>]
NoParse == [threw |-> FALSE, projectId |-> Undef, fileName |-> Undef, baseUrl |-> Undef]

\* path.dirname and path.basename of an absolute path without trailing "/"
Dirname(filePath) ==
    LET Segments(segs) == Join(SubSeq(segs, 1, Len(segs) - 1), <<PathSep>>)
    IN  Segments(Split(filePath, PathSep))

Basename(filePath) ==
    LET Segments(segs) == segs[Len(segs)]
    IN  Segments(Split(filePath, PathSep))

\* new Date().toISOString() at the moment of a download
IsoTimestamp ==
    <<"2", "0", "2", "6", "-", "0", "1", "-", "0", "2", "T", "0", "3", ":",
      "0", "4", ":", "0", "5", ".", "0", "0", "6", "Z">>

\* the file openGroveFile writes the timestamped snapshot of a download to
BackupPath(localFilePath, isoTimestamp) ==
    PathJoin(<<PathJoin(<<Dirname(localFilePath),
                          <<"b", "a", "c", "k", "u", "p", "s">> >>),
               Basename(localFilePath) \o <<"-">>
               \o ReplaceAll(ReplaceAll(isoTimestamp, <<":">>, <<"-">>),
                             <<".">>, <<"-">>)
               \o <<".", "m", "d">> >>)

isGroveDocument(fileName) == Includes(fileName, EXTENSION_WORKING_DIR)

\* a file of the user's own whose directory name merely holds the anchor
ForeignNotesFile ==
    HomeDir \o <<"/", "p", "/">> \o EXTENSION_WORKING_DIR
    \o <<"-", "n", "o", "t", "e", "s", "/", "a", ".", "m", "d">>

\* a file of the user's own named like the working directory
ForeignAnchorFile == HomeDir \o <<"/", "p", "/">> \o EXTENSION_WORKING_DIR

\* the files next to a downloaded document that no open request opened
OtherFiles(localFilePath) ==
    { BackupPath(localFilePath, IsoTimestamp), ForeignNotesFile,
      ForeignAnchorFile }

NoUpload == [sent |-> FALSE, threw |-> FALSE, target |-> NoParse]

\* handleDocumentSave up to the upload, for a file saved under fileName
\* while the vault holds keys for the origins of keyOrigins
SaveOfFile(fileName, keyOrigins) ==
    LET Parsed(target) ==
            [sent |-> ~target.threw /\ target.baseUrl \in keyOrigins,
             threw |-> target.threw, target |-> target]
    IN  IF ~isGroveDocument(fileName) THEN NoUpload
        ELSE Parsed(parseLocalFilePath(fileName))

PathIdle ==
    /\ pathIn = NoPathInput
    /\ pathLocal = <<>>
    /\ pathOut = NoParse
    /\ pathPc = "idle"
    /\ pathUpload = NoUpload

PathEncode ==
    /\ pathPc = "input"
    /\ pathLocal' = createLocalFilePath(pathIn.origin, pathIn.path)
    /\ pathPc' = "encoded"
    /\ UNCHANGED <<pathIn, pathOut, pathUpload>>

PathDecode ==
    /\ pathPc = "encoded"
    /\ pathOut' = parseLocalFilePath(pathLocal)
    /\ pathPc' = "decoded"
    /\ UNCHANGED <<pathIn, pathLocal, pathUpload>>

\* the user saves the downloaded document; the vault holds its origin's key
PathSave ==
    /\ pathPc = "encoded"
    /\ pathUpload' = SaveOfFile(pathLocal, { pathIn.origin })
    /\ pathPc' = "saved"
    /\ UNCHANGED <<pathIn, pathLocal, pathOut>>

\* the user saves another file whose path holds the working directory's name
PathSaveOther(file) ==
    /\ pathPc = "encoded"
    /\ pathLocal' = file
    /\ pathUpload' = SaveOfFile(file, { pathIn.origin })
    /\ pathPc' = "savedOther"
    /\ UNCHANGED <<pathIn, pathOut>>

-----------------------------------------------------------------------------
(* Format conversion runs: the documents convertGroveToMd is applied to    *)

MaxBlocks == 2

NameD1 == <<"d", "1">>
NameQuoted == <<"d", DQ, BS, "2">>
ModePython == <<"p", "y", "t", "h", "o", "n">>

TypeImage == <<"i", "m", "a", "g", "e">>
WordTitle == <<"T", "i", "t", "l", "e">>

\* a block that has no data field
BlockWithoutData(type) ==
    [type |-> type, hasData |-> FALSE, hasCodeData |-> FALSE,
     value |-> Undef, pinCode |-> Undef, dname |-> Undef,
     codeMode |-> Undef, hide |-> Undef, level |-> Undef, text |-> Undef]

\* a codeTool block whose data has no codeData field
CodeToolWithoutCodeData ==
    [BlockWithoutData(TypeCodeTool) EXCEPT !.hasData = TRUE]

BlockChoices ==
    { CodeToolBlock(<<"x">>, False, NameD1, ModeJavascript2, False),
      CodeToolBlock(<<"a", NL, "b">>, True, NameQuoted, ModePython, True),
      CodeToolBlock(<<" ", "x">>, False, NameD1, ModeJavascript2, False),
      CodeToolBlock(<<"x", NL>>, True, NameD1, ModePython, False),
      CodeToolBlock(<<>>, False, Undef, ModeJavascript2, True),
      CodeToolBlock(<<"x", BT, BT, " ", "<", "!", "-", "-", "y">>, True, Undef, ModePython, False),
      CodeToolBlock(Undef, Undef, Undef, Undef, Undef),
      TextBlock(TypeHeader, <<"#num", "1">>, WordTitle),
      TextBlock(TypeHeader, <<"#num", "2">>, WordTitle),
      TextBlock(TypeParagraph, Undef, <<"S", "o", "m", "e">>),
      TextBlock(TypeImage, Undef, Undef),
      BlockWithoutData(TypeImage),
      CodeToolWithoutCodeData }

BlockLists == UNION { [1..n -> BlockChoices] : n \in 1..MaxBlocks }

NoConversion == [threw |-> FALSE, blocks |-> <<>>, version |-> <<>>, uuids |-> 0]

ConvIdle ==
    /\ convIn = <<>>
    /\ convMd = [threw |-> FALSE, text |-> <<>>]
    /\ convOut = NoConversion
    /\ convPc = "idle"

ConvDecode ==
    /\ convPc = "input"
    /\ convMd' = convertGroveToMd(convIn)
    /\ convPc' = "decoded"
    /\ UNCHANGED <<convIn, convOut>>

ConvEncode ==
    /\ convPc = "decoded"
    /\ ~convMd.threw
    /\ convOut' = convertMdToGrove(convMd.text, 0)
    /\ convPc' = "encoded"
    /\ UNCHANGED <<convIn, convMd>>

-----------------------------------------------------------------------------
(* Markdown encoding runs: the texts convertMdToGrove is applied to        *)

\* how many paragraphs a text has
MaxMdParts == 3

MdHeading ==
    <<"#", " ", "T", "i", "t", "l", "e">>

MdSomeText ==
    <<"S", "o", "m", "e", " ", "t", "e", "x", "t", ".">>

CodeConsoleLog ==
    <<"c", "o", "n", "s", "o", "l", "e", ".", "l", "o", "g", "(", "1", ")">>

\* a fenced region, after a metadata comment when options is not Undef
MdFenced(options, tag, code) ==
    (IF options = Undef THEN <<>> ELSE CommentOpen \o options \o CommentClose \o <<NL>>)
    \o Fence \o tag \o <<NL>> \o code \o <<NL>> \o Fence

OptionsNull ==
    <<"n", "u", "l", "l">>

OptionsBroken ==
    <<"{", "o", "o", "p", "s">>

OptionsNumber ==
    <<"5">>

OptionsPinned ==
    <<"{", DQ, "p", "i", "n", "C", "o", "d", "e", DQ, ":", "t", "r", "u",
      "e", ",", DQ, "d", "n", "a", "m", "e", DQ, ":", DQ, "d", "1", DQ, "}">>

\* {"codeMode":"python","hide":true}
OptionsMode ==
    <<"{", DQ, "c", "o", "d", "e", "M", "o", "d", "e", DQ, ":", DQ, "p", "y",
      "t", "h", "o", "n", DQ, ",", DQ, "h", "i", "d", "e", DQ, ":", "t", "r",
      "u", "e", "}">>

MdFencedParts ==
    { MdFenced(Undef, TagJs, CodeConsoleLog),
      MdFenced(OptionsNull, TagJs, <<"y">>),
      MdFenced(OptionsBroken, TagJs, <<"y">>),
      MdFenced(OptionsNumber, <<>>, <<"y">>),
      MdFenced(OptionsPinned, ModePython, <<"z">>),
      MdFenced(OptionsMode, <<>>, <<"z">>) }

MdParts == { MdHeading, MdSomeText } \cup MdFencedParts

MdPartLists == UNION { [1..n -> MdParts] : n \in 1..MaxMdParts }

\* the text whose paragraphs, separated by blank lines, are parts
MdContent(parts) == Join(parts, <<NL, NL>>)

MdIdle ==
    /\ mdIn = <<>>
    /\ mdOut = NoConversion
    /\ mdPrev = NoConversion
    /\ mdPc = "idle"

EncodeMarkdown ==
    /\ mdPc = "input"
    /\ mdOut' = convertMdToGrove(MdContent(mdIn), 0)
    /\ mdPc' = "encoded"
    /\ UNCHANGED <<mdIn, mdPrev>>

\* the same text is converted once more, as the next save of the document
\* does; crypto.randomUUID goes on drawing
EncodeAgain ==
    /\ mdPc = "encoded"
    /\ ~mdOut.threw
    /\ mdPrev' = mdOut
    /\ mdOut' = convertMdToGrove(MdContent(mdIn), mdOut.uuids)
    /\ mdPc' = "again"
    /\ UNCHANGED mdIn

-----------------------------------------------------------------------------
(* Version detection and the upload format                                 *)

DefaultGroveVersion == <<"1", ".", "0", ".", "0">>
DirectMarkdownVersion == <<"2", ".", "0", ".", "0">>

\* NumberOrZero reading only the first digit of a component
NumberOrZero_FirstDigit(parts, i) ==
    IF i > Len(parts) THEN 0
    ELSE IF IsDigits(parts[i]) THEN DigitValue(parts[i][1])
    ELSE 0

\* (parts[i] || 0) after split(".").map(Number), for components written in
\* decimal digits: a missing, empty or non-numeric component counts as 0
NumberOrZero(parts, i) ==
    IF i > Len(parts) THEN 0
    ELSE IF IsDigits(parts[i]) THEN DecimalValue(parts[i])
    ELSE 0

\* isVersionAtLeast with equal versions taken as too old
isVersionAtLeast_Strict(version, minVersion) ==
    LET Decide(v, min, differ) ==
            IF differ = {} THEN FALSE
            ELSE NumberOrZero(v, Min(differ)) > NumberOrZero(min, Min(differ))
        Compare(v, min) ==
            Decide(v, min, { i \in 1..3 : NumberOrZero(v, i) # NumberOrZero(min, i) })
    IN  Compare(Split(version, "."), Split(minVersion, "."))

isVersionAtLeast(version, minVersion) ==
    LET Decide(v, min, differ) ==
            IF differ = {} THEN TRUE
            ELSE NumberOrZero(v, Min(differ)) > NumberOrZero(min, Min(differ))
        Compare(v, min) ==
            Decide(v, min, { i \in 1..3 : NumberOrZero(v, i) # NumberOrZero(min, i) })
    IN  Compare(Split(version, "."), Split(minVersion, "."))

\* What the fetch of /api/tempModule/tempModules comes back with:
\*   rejected      the fetch promise rejects (network error)
\*   ok            response.ok, the status is 2xx
\*   json          the body parses as JSON to an object
\*   groveVersion  the version of the module named "Grove" in data.content,
\*                 Undef when there is no such module or no content
ProbeResponse(rejected, ok, json, groveVersion) ==
    [rejected |-> rejected, ok |-> ok, json |-> json, groveVersion |-> groveVersion]

\* getGroveVersion after a cache miss: the version it returns and whether it
\* stores it in groveVersionCache
ProbeResult(response) ==
    IF response.rejected \/ ~response.json
    THEN [version |-> DefaultGroveVersion, cached |-> FALSE]
    ELSE [version |-> IF Truthy(response.groveVersion) THEN response.groveVersion
                      ELSE DefaultGroveVersion,
          cached |-> TRUE]

KeyType == <<"t", "y", "p", "e">>
KeyData == <<"d", "a", "t", "a">>
KeyCodeData == <<"c", "o", "d", "e", "D", "a", "t", "a">>
KeyValue == <<"v", "a", "l", "u", "e">>
KeyBlocks == <<"b", "l", "o", "c", "k", "s">>
KeyVersion == <<"v", "e", "r", "s", "i", "o", "n">>

\* JSON.stringify of one block of convertMdToGrove's result
JsonStringifyBlock(block) ==
    <<"{">> \o JsonQuote(KeyType) \o <<":">> \o JsonQuote(block.type) \o <<",">>
    \o JsonQuote(KeyData) \o <<":", "{">> \o JsonQuote(KeyCodeData) \o <<":">>
    \o JsonStringifyObject(<< <<KeyValue, block.value>>, <<KeyPinCode, block.pinCode>>,
                              <<KeyDname, block.dname>>, <<KeyCodeMode, block.codeMode>>,
                              <<KeyHide, block.hide>> >>)
    \o <<"}", "}">>

\* JSON.stringify(grovePayload)
JsonStringifyGrove(grove) ==
    <<"{">> \o JsonQuote(KeyBlocks) \o <<":", "[">>
    \o Join([i \in 1..Len(grove.blocks) |-> JsonStringifyBlock(grove.blocks[i])], <<",">>)
    \o <<"]", ",">> \o JsonQuote(KeyVersion) \o <<":">> \o JsonQuote(grove.version)
    \o <<"}">>

\* contentToUpload of handleDocumentSave. threw is TRUE where convertMdToGrove
\* raises; uuids is the number of identifiers drawn afterwards.
ContentToUpload(content, groveVersion, uuid) ==
    LET Legacy(grovePayload) ==
            [threw |-> grovePayload.threw,
             data |-> IF grovePayload.threw THEN <<>>
                      ELSE JsonStringifyGrove(grovePayload),
             uuids |-> grovePayload.uuids]
    IN  IF isVersionAtLeast(groveVersion, DirectMarkdownVersion)
        THEN [threw |-> FALSE, data |-> content, uuids |-> uuid]
        ELSE Legacy(convertMdToGrove(content, uuid))

-----------------------------------------------------------------------------
(* Version comparison runs                                                 *)

\* how many dot-separated components a version string has
MaxVersionParts == 3

\* the components the version strings are built from
VersionComponents ==
    { <<"0">>, <<"1">>, <<"2">>, <<"9">>, <<"1", "0">> }

VersionPartLists ==
    UNION { [1..n -> VersionComponents] : n \in 1..MaxVersionParts }

VersionStrings == { Join(parts, <<".">>) : parts \in VersionPartLists }

NoVersionInput == [version |-> <<>>, minVersion |-> <<>>]

VerIdle ==
    /\ verIn = NoVersionInput
    /\ verOut = FALSE
    /\ verPc = "idle"

VersionCompare ==
    /\ verPc = "input"
    /\ verOut' = isVersionAtLeast(verIn.version, verIn.minVersion)
    /\ verPc' = "compared"
    /\ UNCHANGED verIn

-----------------------------------------------------------------------------
(* The bridge: documents, saves, the version cache and the sockets         *)

VARIABLES
    host,                  \* "loaded" | "active" | "deactivated": how far the editor took the extension
    extensionContext,      \* "null" | "context"
    statusBarItem,         \* [exists, text, visible]; exists is FALSE for null
    secrets,               \* the origins the vault holds an API key for
    autoSync,              \* the grovebook.autoSync setting
    docs,                  \* document -> [open, text, dirty]
    lastSyncedContent,     \* document uri -> content, Undef when absent
    changeDebounceTimers,  \* the entries of the map: the timer [doc, text] kept for a document uri
    timeouts,              \* the timers setTimeout started that neither fired nor were cleared
    sockets,               \* baseUrl -> number of the registered socket, 0 when absent
    socketState,           \* the sockets created so far: [baseUrl, state]
    groveVersionCache,     \* baseUrl -> version, Undef when absent
    opens,                 \* document -> where its openGroveFile run stands
    saves,                 \* the handleDocumentSave runs under way, oldest first
    emitted,               \* the requestReload messages the latest step emitted
    notification           \* the message the latest step showed to the user

bridgeVars ==
    <<host, extensionContext, statusBarItem, secrets, autoSync, docs,
      lastSyncedContent, changeDebounceTimers, timeouts, sockets, socketState,
      groveVersionCache, opens, saves, emitted, notification>>

\* how many handleDocumentSave runs are under way at once
MaxSaves == 2

\* how many sockets exist when a connection is still lost
MaxSockets == 2

SyncStatus == [SYNCED |-> "synced", MODIFIED |-> "modified", SYNCING |-> "syncing"]

NoStatusBarItem == [exists |-> FALSE, text |-> "", visible |-> FALSE]

\* The managed documents: document d is the remote file DocRemotePath[d] of
\* the server DocOrigin[d], kept at the local path DocFileName[d].
Docs == { 1, 2 }
DocOrigin == <<OriginLocalhost3000, OriginLocalhost3000>>
DocRemotePath == <<RemotePathDemo, RemotePathNotes>>

\* the document of the sessions that work on one document
OneDoc == { 1 }
DocFileName == [d \in Docs |-> createLocalFilePath(DocOrigin[d], DocRemotePath[d])]
Origins == { DocOrigin[d] : d \in Docs }

\* what handleDocumentSave destructures from parseLocalFilePath(document.fileName)
DocTarget == [d \in Docs |-> parseLocalFilePath(DocFileName[d])]

\* The contents a document takes: TextA is what a remote document of one
\* cell renders as, TextB is a fenced region typed without a metadata comment.
ServerBlocks == <<CodeToolBlock(<<"x">>, False, NameD1, ModeJavascript2, False)>>
ServerJson == JsonStringifyGrove([blocks |-> ServerBlocks, version |-> GroveFormatVersion])
TextA == convertGroveToMd(ServerBlocks).text
TextB == <<BT, BT, BT, "j", "s", NL, "y", NL, BT, BT, BT>>
Texts == { TextA, TextB }

\* a fenced region typed under the metadata comment <!--null-->
TextNullOptions ==
    CommentOpen \o <<"n", "u", "l", "l">> \o CommentClose
    \o <<NL, BT, BT, BT, "j", "s", NL, "y", NL, BT, BT, BT>>

AllTexts == Texts \cup { TextNullOptions }

\* What a download comes back with: grove is TRUE when the body parses as
\* JSON with a blocks field, and blocks is then that field.
DownloadResponses ==
    { [rejected |-> TRUE, ok |-> FALSE, grove |-> FALSE, blocks |-> <<>>, body |-> <<>>],
      [rejected |-> FALSE, ok |-> FALSE, grove |-> FALSE, blocks |-> <<>>, body |-> <<>>],
      [rejected |-> FALSE, ok |-> TRUE, grove |-> TRUE, blocks |-> ServerBlocks, body |-> ServerJson],
      [rejected |-> FALSE, ok |-> TRUE, grove |-> FALSE, blocks |-> <<>>, body |-> TextB] }

\* The bodies a 2xx download can carry, with what JSON.parse makes of them:
\* isJson tells whether the body parses, grove whether the parsed value has a
\* truthy blocks field, blocks that field.
BodyJsonWithoutBlocks ==
    <<"{", DQ, "a", DQ, ":", "1", "}">>

BodyBlockWithoutData ==
    <<"{", DQ, "b", "l", "o", "c", "k", "s", DQ, ":", "[", "{", DQ, "t", "y",
      "p", "e", DQ, ":", DQ, "i", "m", "a", "g", "e", DQ, "}", "]", "}">>

BodyNoBlocksAtAll ==
    <<"{", DQ, "b", "l", "o", "c", "k", "s", DQ, ":", "[", "]", "}">>

DownloadBodies ==
    { [rejected |-> TRUE, ok |-> FALSE, isJson |-> FALSE, grove |-> FALSE,
       blocks |-> <<>>, body |-> <<>>],
      [rejected |-> FALSE, ok |-> FALSE, isJson |-> FALSE, grove |-> FALSE,
       blocks |-> <<>>, body |-> <<>>],
      [rejected |-> FALSE, ok |-> TRUE, isJson |-> TRUE, grove |-> TRUE,
       blocks |-> ServerBlocks, body |-> ServerJson],
      [rejected |-> FALSE, ok |-> TRUE, isJson |-> FALSE, grove |-> FALSE,
       blocks |-> <<>>, body |-> TextB],
      [rejected |-> FALSE, ok |-> TRUE, isJson |-> TRUE, grove |-> FALSE,
       blocks |-> <<>>, body |-> BodyJsonWithoutBlocks],
      [rejected |-> FALSE, ok |-> TRUE, isJson |-> TRUE, grove |-> TRUE,
       blocks |-> <<BlockWithoutData(TypeImage)>>, body |-> BodyBlockWithoutData],
      [rejected |-> FALSE, ok |-> TRUE, isJson |-> TRUE, grove |-> TRUE,
       blocks |-> <<>>, body |-> BodyNoBlocksAtAll] }

Version199 == <<"1", ".", "9", ".", "9">>
Version200 == <<"2", ".", "0", ".", "0">>

ProbeResponses ==
    { ProbeResponse(TRUE, FALSE, FALSE, Undef),
      ProbeResponse(FALSE, TRUE, FALSE, Undef),
      ProbeResponse(FALSE, TRUE, TRUE, Undef),
      ProbeResponse(FALSE, TRUE, TRUE, Version199),
      ProbeResponse(FALSE, TRUE, TRUE, Version200),
      ProbeResponse(FALSE, FALSE, FALSE, Undef),
      ProbeResponse(FALSE, FALSE, TRUE, Undef) }

GroveVersions == { DefaultGroveVersion, Version199, Version200 }

\* The identifiers a save draws are numbered from its own multiple of
\* MaxBlocks, one that no save under way has taken.
UuidBases == { n * MaxBlocks : n \in 0..MaxSaves }

\* ContentToUpload, tabulated
UploadForm ==
    [content \in AllTexts, groveVersion \in GroveVersions, uuid \in UuidBases |->
        ContentToUpload(content, groveVersion, uuid)]

\* What the upload request comes back with
UploadResponses ==
    { [rejected |-> TRUE, ok |-> FALSE],
      [rejected |-> FALSE, ok |-> FALSE],
      [rejected |-> FALSE, ok |-> TRUE] }

\* clearTimeout that cancels nothing
clearTimeout_Nothing(pending, cleared) == pending

\* clearTimeout on each timer of cleared: a cleared timer never fires
clearTimeout(pending, cleared) == pending \ cleared

\* changeDebounceTimers.get(uri): the entry kept for document d, if any
TimersOf(entries, d) == { timer \in entries : timer.doc = d }

updateStatusBar(item, status) ==
    IF ~item.exists THEN item ELSE [item EXCEPT !.text = status]

getSyncStatusForDocument(currentContent, lastContent) ==
    IF lastContent # Undef /\ currentContent = lastContent
    THEN SyncStatus.SYNCED
    ELSE SyncStatus.MODIFIED

\* handleDocumentChange without its Synced branch
StatusAfterChange_NeverSynced(currentContent, lastContent) == SyncStatus.MODIFIED

\* the branch handleDocumentChange takes on the new content
StatusAfterChange(currentContent, lastContent) ==
    IF lastContent # Undef /\ currentContent = lastContent
    THEN SyncStatus.SYNCED
    ELSE SyncStatus.MODIFIED

\* updateStatusBarVisibility that shows the item without refreshing its text
ShowStatusFor_Stale(item, currentContent, lastContent) ==
    IF ~item.exists THEN item ELSE [item EXCEPT !.visible = TRUE]

\* updateStatusBarVisibility when the active editor shows a managed document
ShowStatusFor(item, currentContent, lastContent) ==
    IF ~item.exists THEN item
    ELSE [updateStatusBar(item, getSyncStatusForDocument(currentContent, lastContent))
            EXCEPT !.visible = TRUE]

\* statusBarItem?.hide()
HideStatus(item) == IF ~item.exists THEN item ELSE [item EXCEPT !.visible = FALSE]

\* What the active editor can turn to: a managed document, or NoGroveEditor
\* for no editor at all and for a document outside the working directory.
NoGroveEditor == 0
Editors == Docs \cup { NoGroveEditor }

\* the mdContent openGroveFile derives from a 2xx download
DownloadedMarkdown(response) ==
    LET Converted(md) == IF md.threw THEN response.body ELSE md.text
    IN  IF response.grove THEN Converted(convertGroveToMd(response.blocks))
        ELSE response.body

\* lastSyncedContent.set that records nothing
lastSyncedContentSet_Nothing(map, uri, content) == map

\* lastSyncedContent.set(uri, content)
lastSyncedContentSet(map, uri, content) == [map EXCEPT ![uri] = content]

\* an upload taken as accepted whatever its status
UploadAccepted_AnyStatus(response) == ~response.rejected

\* response.ok of the upload, after the fetch resolved
UploadAccepted(response) == ~response.rejected /\ response.ok

\* requestReload emitted twice
EmitRequestReload_Twice(socket, fileName, projectId) ==
    <<[event |-> "requestReload", socket |-> socket,
       fileName |-> fileName, projectId |-> projectId],
      [event |-> "requestReload", socket |-> socket,
       fileName |-> fileName, projectId |-> projectId]>>

\* socket.emit("requestReload", { fileName, projectId })
EmitRequestReload(socket, fileName, projectId) ==
    <<[event |-> "requestReload", socket |-> socket,
       fileName |-> fileName, projectId |-> projectId]>>

\* a step that puts nothing on a socket and shows no message
Quiet == emitted' = <<>> /\ notification' = "none"

\* seq without its element at position i
RemoveAt(seq, i) == SubSeq(seq, 1, i - 1) \o SubSeq(seq, i + 1, Len(seq))

BridgeInit ==
    /\ host = "loaded"
    /\ extensionContext = "null"
    /\ statusBarItem = NoStatusBarItem
    /\ secrets = Origins
    /\ docs = [d \in Docs |-> [open |-> FALSE, text |-> <<>>, dirty |-> FALSE]]
    /\ lastSyncedContent = [d \in Docs |-> Undef]
    /\ changeDebounceTimers = {}
    /\ timeouts = {}
    /\ sockets = [o \in Origins |-> 0]
    /\ socketState = <<>>
    /\ groveVersionCache = [o \in Origins |-> Undef]
    /\ opens = [d \in Docs |-> "idle"]
    /\ saves = <<>>
    /\ emitted = <<>>
    /\ notification = "none"

\* the bridge before the editor loads it, with auto-sync off
BridgeIdle == BridgeInit /\ autoSync = FALSE

\* activate: the context is stored, the handlers are registered and the
\* status bar item is created
Activate ==
    /\ host = "loaded"
    /\ host' = "active"
    /\ extensionContext' = "context"
    /\ statusBarItem' = updateStatusBar([exists |-> TRUE, text |-> "", visible |-> FALSE],
                                        SyncStatus.SYNCED)
    /\ Quiet
    /\ UNCHANGED <<secrets, autoSync, docs, lastSyncedContent, changeDebounceTimers,
                   timeouts, sockets, socketState, groveVersionCache, opens, saves>>

\* deactivate: socket.disconnect() on every registered socket, then the maps
\* are cleared; runs that wait for a response are left to finish
Deactivate ==
    /\ host = "active"
    /\ host' = "deactivated"
    /\ socketState' =
           [k \in DOMAIN socketState |->
               IF sockets[socketState[k].baseUrl] = k
               THEN [socketState[k] EXCEPT !.state = "closed"]
               ELSE socketState[k]]
    /\ sockets' = [o \in Origins |-> 0]
    /\ timeouts' = clearTimeout(timeouts, changeDebounceTimers)
    /\ changeDebounceTimers' = {}
    /\ lastSyncedContent' = [d \in Docs |-> Undef]
    /\ groveVersionCache' = [o \in Origins |-> Undef]
    /\ statusBarItem' = NoStatusBarItem
    /\ extensionContext' = "null"
    /\ Quiet
    /\ UNCHANGED <<secrets, autoSync, docs, opens, saves>>

\* setApiKey, reached from the grovebook.setApiKey command
SetApiKey(o) ==
    /\ host = "active"
    /\ extensionContext = "context"
    /\ o \notin secrets
    /\ secrets' = secrets \cup { o }
    /\ Quiet
    /\ UNCHANGED <<host, extensionContext, statusBarItem, autoSync, docs,
                   lastSyncedContent, changeDebounceTimers, timeouts, sockets, socketState,
                   groveVersionCache, opens, saves>>

\* deleteApiKey, reached from the grovebook.deleteApiKey command
DeleteApiKey(o) ==
    /\ host = "active"
    /\ extensionContext = "context"
    /\ o \in secrets
    /\ secrets' = secrets \ { o }
    /\ Quiet
    /\ UNCHANGED <<host, extensionContext, statusBarItem, autoSync, docs,
                   lastSyncedContent, changeDebounceTimers, timeouts, sockets, socketState,
                   groveVersionCache, opens, saves>>

\* a vault that answers every origin with a key
HasApiKey_Always(origin) == TRUE

\* extensionContext.secrets.get of getApiKey: whether the vault holds a key
\* for the origin
HasApiKey(origin) == origin \in secrets

\* openGroveFile up to its first await
OpenStart(d) ==
    /\ host = "active"
    /\ ~docs[d].open
    /\ opens[d] = "idle"
    /\ opens' = [opens EXCEPT ![d] = "key"]
    /\ Quiet
    /\ UNCHANGED <<host, extensionContext, statusBarItem, secrets, autoSync, docs,
                   lastSyncedContent, changeDebounceTimers, timeouts, sockets, socketState,
                   groveVersionCache, saves>>

\* openGroveFile from getApiKey to the download request
OpenGotKey(d) ==
    /\ opens[d] = "key"
    /\ IF extensionContext = "context" /\ HasApiKey(DocOrigin[d])
       THEN opens' = [opens EXCEPT ![d] = "fetch"] /\ Quiet
       ELSE /\ opens' = [opens EXCEPT ![d] = "idle"]
            /\ emitted' = <<>>
            /\ notification' = "noKey"
    /\ UNCHANGED <<host, extensionContext, statusBarItem, secrets, autoSync, docs,
                   lastSyncedContent, changeDebounceTimers, timeouts, sockets, socketState,
                   groveVersionCache, saves>>

\* openGroveFile from the download's response to its end
OpenRespond(d, response) ==
    /\ opens[d] = "fetch"
    /\ opens' = [opens EXCEPT ![d] = "idle"]
    /\ emitted' = <<>>
    /\ IF response.rejected \/ ~response.ok
       THEN /\ notification' = "fetchFailed"
            /\ UNCHANGED <<docs, lastSyncedContent, statusBarItem>>
       ELSE LET Shown(mdContent) ==
                    /\ docs' = [docs EXCEPT ![d] =
                                   [open |-> TRUE, text |-> mdContent, dirty |-> FALSE]]
                    /\ lastSyncedContent' =
                           lastSyncedContentSet(lastSyncedContent, d, mdContent)
                    /\ statusBarItem' =
                           ShowStatusFor(updateStatusBar(statusBarItem, SyncStatus.SYNCED),
                                         mdContent, mdContent)
                    /\ notification' = "none"
            IN  Shown(DownloadedMarkdown(response))
    /\ UNCHANGED <<host, extensionContext, secrets, autoSync, changeDebounceTimers, timeouts,
                   sockets, socketState, groveVersionCache, saves>>

\* The user switches the grovebook.autoSync setting, which isAutoSyncEnabled
\* reads anew at every content change. While the extension is not active no
\* handler reads the setting.
SetAutoSync(enabled) ==
    /\ host = "active"
    /\ autoSync # enabled
    /\ autoSync' = enabled
    /\ Quiet
    /\ UNCHANGED <<host, extensionContext, statusBarItem, secrets, docs,
                   lastSyncedContent, changeDebounceTimers, timeouts, sockets,
                   socketState, groveVersionCache, opens, saves>>

\* The editor closes document d (document.isClosed becomes true). The editor
\* closes a document only once it is saved or reverted, so a closed document
\* is not dirty.
CloseDocument(d) ==
    /\ host = "active"
    /\ docs[d].open
    /\ ~docs[d].dirty
    /\ docs' = [docs EXCEPT ![d] = [@ EXCEPT !.open = FALSE]]
    /\ Quiet
    /\ UNCHANGED <<host, extensionContext, statusBarItem, secrets, autoSync,
                   lastSyncedContent, changeDebounceTimers, timeouts, sockets,
                   socketState, groveVersionCache, opens, saves>>

\* onDidChangeActiveTextEditor: updateStatusBarVisibility for the editor that
\* became active. A managed document is shown in an editor only while open.
ChangeActiveEditor(editor) ==
    /\ host = "active"
    /\ editor \in Docs => docs[editor].open
    /\ statusBarItem' =
           IF editor \in Docs
           THEN ShowStatusFor(statusBarItem, docs[editor].text, lastSyncedContent[editor])
           ELSE HideStatus(statusBarItem)
    /\ Quiet
    /\ UNCHANGED <<host, extensionContext, secrets, autoSync, docs, lastSyncedContent,
                   changeDebounceTimers, timeouts, sockets, socketState,
                   groveVersionCache, opens, saves>>

\* handleDocumentChange for an edit that turns the content of d into text
HandleDocumentChange(d, text) ==
    /\ host = "active"
    /\ docs[d].open
    /\ text # docs[d].text
    /\ docs' = [docs EXCEPT ![d] = [@ EXCEPT !.text = text, !.dirty = TRUE]]
    /\ statusBarItem' =
           updateStatusBar(statusBarItem, StatusAfterChange(text, lastSyncedContent[d]))
    /\ IF autoSync
       THEN LET Restart(timer) ==
                    /\ timeouts' =
                           clearTimeout(timeouts, TimersOf(changeDebounceTimers, d))
                           \cup { timer }
                    /\ changeDebounceTimers' =
                           (changeDebounceTimers \ TimersOf(changeDebounceTimers, d))
                           \cup { timer }
            IN  Restart([doc |-> d, text |-> text])
       ELSE UNCHANGED <<changeDebounceTimers, timeouts>>
    /\ Quiet
    /\ UNCHANGED <<host, extensionContext, secrets, autoSync, lastSyncedContent,
                   sockets, socketState, groveVersionCache, opens, saves>>

\* handleDocumentSave up to its first await: the status turns to Syncing and
\* the local path is parsed; a path that cannot be parsed ends the run
BeginSave(d) ==
    /\ Len(saves) < MaxSaves
    /\ statusBarItem' = updateStatusBar(statusBarItem, SyncStatus.SYNCING)
    /\ saves' = IF DocTarget[d].threw THEN saves
                ELSE Append(saves,
                            [doc |-> d, pc |-> "key", target |-> DocTarget[d],
                             content |-> Undef, version |-> Undef,
                             uuid |-> -1, data |-> Undef])

\* the user saves document d
UserSave(d) ==
    /\ host = "active"
    /\ docs[d].open
    /\ docs' = [docs EXCEPT ![d] = [@ EXCEPT !.dirty = FALSE]]
    /\ BeginSave(d)
    /\ Quiet
    /\ UNCHANGED <<host, extensionContext, secrets, autoSync, lastSyncedContent,
                   changeDebounceTimers, timeouts, sockets, socketState, groveVersionCache,
                   opens>>

\* the debounce timer of d expires: autoSaveDocument
TimerFire(d) ==
    /\ \E timer \in TimersOf(timeouts, d) : timeouts' = timeouts \ { timer }
    /\ changeDebounceTimers' = changeDebounceTimers \ TimersOf(changeDebounceTimers, d)
    /\ IF docs[d].open /\ docs[d].dirty
       THEN /\ docs' = [docs EXCEPT ![d] = [@ EXCEPT !.dirty = FALSE]]
            /\ BeginSave(d)
       ELSE UNCHANGED <<docs, statusBarItem, saves>>
    /\ Quiet
    /\ UNCHANGED <<host, extensionContext, secrets, autoSync, lastSyncedContent,
                   sockets, socketState, groveVersionCache, opens>>

\* a multiple of MaxBlocks that no save under way numbers its identifiers from
FreshUuidBase ==
    Min({ u \in UuidBases : \A s \in 1..Len(saves) : saves[s].uuid # u })

\* handleDocumentSave from contentToUpload to the upload request; a
\* conversion that raises ends the run with the status left at Syncing
SendUpload(s, content, groveVersion) ==
    LET Built(uuid, upload) ==
            saves' = IF upload.threw THEN RemoveAt(saves, s)
                     ELSE [saves EXCEPT ![s] =
                              [@ EXCEPT !.pc = "uploading",
                                        !.content = content,
                                        !.version = groveVersion,
                                        !.uuid = uuid,
                                        !.data = upload.data]]
        Drawn(uuid) == Built(uuid, UploadForm[content, groveVersion, uuid])
    IN  Drawn(FreshUuidBase)

\* handleDocumentSave from getApiKey's answer: without a key the run ends;
\* with one the content is read and getGroveVersion answers from the cache
\* or sends its probe
SaveGotKey(s) ==
    /\ s \in 1..Len(saves)
    /\ saves[s].pc = "key"
    /\ emitted' = <<>>
    /\ LET baseUrl == saves[s].target.baseUrl
       IN  IF ~HasApiKey(baseUrl)
           THEN /\ notification' = "noKey"
                /\ statusBarItem' = updateStatusBar(statusBarItem, SyncStatus.MODIFIED)
                /\ saves' = RemoveAt(saves, s)
           ELSE IF groveVersionCache[baseUrl] # Undef
           THEN /\ notification' = "none"
                /\ SendUpload(s, docs[saves[s].doc].text, groveVersionCache[baseUrl])
                /\ UNCHANGED statusBarItem
           ELSE /\ notification' = "none"
                /\ saves' = [saves EXCEPT ![s] =
                                [@ EXCEPT !.pc = "probing",
                                          !.content = docs[saves[s].doc].text]]
                /\ UNCHANGED statusBarItem
    /\ UNCHANGED <<host, extensionContext, secrets, autoSync, docs, lastSyncedContent,
                   changeDebounceTimers, timeouts, sockets, socketState, groveVersionCache,
                   opens>>

\* getGroveVersion from the probe's response, then handleDocumentSave up to
\* the upload request
ProbeRespond(s, response) ==
    /\ s \in 1..Len(saves)
    /\ saves[s].pc = "probing"
    /\ LET baseUrl == saves[s].target.baseUrl
           result == ProbeResult(response)
       IN  /\ groveVersionCache' =
                  IF result.cached
                  THEN [groveVersionCache EXCEPT ![baseUrl] = result.version]
                  ELSE groveVersionCache
           /\ SendUpload(s, saves[s].content, result.version)
    /\ Quiet
    /\ UNCHANGED <<host, extensionContext, statusBarItem, secrets, autoSync, docs,
                   lastSyncedContent, changeDebounceTimers, timeouts, sockets, socketState,
                   opens>>

\* connectSocket: the number of the socket it returns
connectSocket(baseUrl) ==
    IF sockets[baseUrl] # 0 THEN sockets[baseUrl] ELSE Len(socketState) + 1

\* handleDocumentSave from the upload's response to its end
UploadRespond(s, response) ==
    /\ s \in 1..Len(saves)
    /\ saves[s].pc = "uploading"
    /\ saves' = RemoveAt(saves, s)
    /\ LET d == saves[s].doc
           baseUrl == saves[s].target.baseUrl
       IN  IF UploadAccepted(response)
           THEN /\ socketState' =
                       IF sockets[baseUrl] # 0 THEN socketState
                       ELSE Append(socketState, [baseUrl |-> baseUrl, state |-> "live"])
                /\ sockets' = [sockets EXCEPT ![baseUrl] = connectSocket(baseUrl)]
                /\ emitted' = EmitRequestReload(connectSocket(baseUrl),
                                                saves[s].target.fileName,
                                                saves[s].target.projectId)
                /\ lastSyncedContent' =
                       lastSyncedContentSet(lastSyncedContent, d, saves[s].content)
                /\ statusBarItem' = updateStatusBar(statusBarItem, SyncStatus.SYNCED)
                /\ notification' = "saved"
           ELSE /\ statusBarItem' = updateStatusBar(statusBarItem, SyncStatus.MODIFIED)
                /\ notification' = "uploadFailed"
                /\ emitted' = <<>>
                /\ UNCHANGED <<sockets, socketState, lastSyncedContent>>
    /\ UNCHANGED <<host, extensionContext, secrets, autoSync, docs,
                   changeDebounceTimers, timeouts, groveVersionCache, opens>>

\* The connection of socket k is lost: its "disconnect" handler removes the
\* registry entry of its baseUrl, and socket.io-client, which ioOptions leaves
\* at its default of reconnecting, starts to reconnect.
SocketLost(k) ==
    /\ k \in 1..Len(socketState)
    /\ socketState[k].state = "live"
    /\ socketState' = [socketState EXCEPT ![k] = [@ EXCEPT !.state = "reconnecting"]]
    /\ sockets' = [sockets EXCEPT ![socketState[k].baseUrl] = 0]
    /\ Quiet
    /\ UNCHANGED <<host, extensionContext, statusBarItem, secrets, autoSync, docs,
                   lastSyncedContent, changeDebounceTimers, timeouts, groveVersionCache,
                   opens, saves>>

\* the same, while fewer than MaxSockets sockets were created
SocketDisconnect(k) ==
    /\ Len(socketState) < MaxSockets
    /\ SocketLost(k)

\* socket k is connected again: its "connect" handler only traces
SocketReconnect(k) ==
    /\ k \in 1..Len(socketState)
    /\ socketState[k].state = "reconnecting"
    /\ socketState' = [socketState EXCEPT ![k] = [@ EXCEPT !.state = "live"]]
    /\ Quiet
    /\ UNCHANGED <<host, extensionContext, statusBarItem, secrets, autoSync, docs,
                   lastSyncedContent, changeDebounceTimers, timeouts, sockets, groveVersionCache,
                   opens, saves>>

-----------------------------------------------------------------------------
(* What surrounds the bridge: the editor's focus and the server's store    *)

VARIABLES
    activeEditor,          \* vscode.window.activeTextEditor: a managed document or NoGroveEditor
    stored,                \* document -> the data the server stored last, Undef before any upload
    accepted,              \* the uploads under way that the server stored already, by their uuid base
    changes                \* how many content changes the user made

envVars == <<activeEditor, stored, accepted, changes>>

\* how many content changes the user makes before the editing stops
MaxChanges == 3

\* sessions that do not look at the focus, the server or the number of changes
EnvIdle ==
    /\ activeEditor = NoGroveEditor
    /\ stored = [d \in Docs |-> Undef]
    /\ accepted = {}
    /\ changes = 0

\* The server takes the upload of save s and stores its data; its response
\* is still to come.
ServerStore(s) ==
    /\ s \in 1..Len(saves)
    /\ saves[s].pc = "uploading"
    /\ saves[s].uuid \notin accepted
    /\ stored' = [stored EXCEPT ![saves[s].doc] = saves[s].data]
    /\ accepted' = accepted \cup { saves[s].uuid }
    /\ UNCHANGED <<activeEditor, changes, bridgeVars>>

\* the response of an upload: a 2xx response comes from a server that stored
\* the data
ServerRespond(s, response) ==
    /\ s \in 1..Len(saves)
    /\ UploadAccepted(response) => saves[s].uuid \in accepted
    /\ accepted' = accepted \ { saves[s].uuid }
    /\ UNCHANGED <<activeEditor, stored, changes>>

\* showTextDocument at the end of a download that succeeded makes the
\* document the active editor
FocusAfterOpen(d, response) ==
    /\ activeEditor' = IF ~response.rejected /\ response.ok THEN d ELSE activeEditor
    /\ UNCHANGED <<stored, accepted, changes>>

\* the editor that became active
FocusOn(editor) ==
    /\ activeEditor' = editor
    /\ UNCHANGED <<stored, accepted, changes>>

\* one more content change, while the user goes on editing
CountChange ==
    /\ changes < MaxChanges
    /\ changes' = changes + 1
    /\ UNCHANGED <<activeEditor, stored, accepted>>

-----------------------------------------------------------------------------
(* Migration of the API keys from the settings to the vault                *)

API_KEY_PREFIX == <<"a", "p", "i", "K", "e", "y", ":">>

\* how many entries the legacy map has
MaxLegacyKeys == 2

\* how many sessions activate the extension
MaxMigrationRuns == 2

SecretOne == <<"k", "1">>
SecretTwo == <<"k", "2">>

LegacyEntries ==
    { [origin |-> OriginKineviz, apiKey |-> SecretOne],
      [origin |-> OriginLocalhost3000, apiKey |-> SecretTwo] }

\* Object.entries of the maps the settings can hold: entries of distinct
\* origins, in the order of the map
LegacyMaps ==
    { entries \in UNION { [1..n -> LegacyEntries] : n \in 0..MaxLegacyKeys } :
        \A i, j \in 1..Len(entries) : i # j => entries[i].origin # entries[j].origin }

\* A run of migrateApiKeys:
\*   pc                 "idle" before activate calls it; "storing", "flagging",
\*                      "clearing" for the await it stands at; "returned";
\*                      "raised" when it ended with an exception
\*   migrationComplete  the flag as the run read it
\*   oldApiKeys         the map as the run read it
\*   pending            the entries the loop has not stored yet
\*   migratedCount, errors   as in the code (errors is errors.length)
\*   writes             the writes the run attempted on the vault and the settings
\*   shown              the messages the run showed
\*   runs               the number of the session
NoMigration ==
    [pc |-> "idle", migrationComplete |-> FALSE, oldApiKeys |-> <<>>, pending |-> <<>>,
     migratedCount |-> 0, errors |-> 0, writes |-> <<>>, shown |-> <<>>, runs |-> 0]

\* a past session completed the migration
MigIdle ==
    /\ globalState = TRUE
    /\ apiKeysSetting = <<>>
    /\ migration = NoMigration

\* globalState.update that stores nothing
globalStateUpdate_Nothing(state, value) == state

\* context.globalState.update(MIGRATION_COMPLETE_KEY, value), once it resolved
globalStateUpdate(state, value) == value

\* the messages at the end of the run
MigrationMessages(migratedCount, errors) ==
    (IF migratedCount > 0 THEN <<"migrated">> ELSE <<>>)
    \o (IF errors > 0 THEN <<"failedToMigrate">> ELSE <<>>)

\* activate calls migrateApiKeys: the run up to its first await
MigrateStart ==
    /\ migration.pc \in { "idle", "returned", "raised" }
    /\ migration.runs < MaxMigrationRuns
    /\ migration' =
           [NoMigration EXCEPT
              !.runs = migration.runs + 1,
              !.migrationComplete = globalState,
              !.oldApiKeys = IF globalState THEN <<>> ELSE apiKeysSetting,
              !.pending = IF globalState THEN <<>> ELSE apiKeysSetting,
              !.pc = IF globalState THEN "returned"
                     ELSE IF apiKeysSetting = <<>> THEN "flagging"
                     ELSE "storing"]
    /\ UNCHANGED <<globalState, apiKeysSetting, secrets>>

\* context.secrets.store for the next entry resolves (ok) or rejects
StoreRespond(ok) ==
    /\ migration.pc = "storing"
    /\ LET entry == Head(migration.pending)
       IN  /\ secrets' = IF ok THEN secrets \cup { entry.origin } ELSE secrets
           /\ migration' =
                  [migration EXCEPT
                     !.pending = Tail(@),
                     !.migratedCount = IF ok THEN @ + 1 ELSE @,
                     !.errors = IF ok THEN @ ELSE @ + 1,
                     !.writes = Append(@, [to |-> "vault",
                                           key |-> API_KEY_PREFIX \o entry.origin,
                                           value |-> entry.apiKey, ok |-> ok]),
                     !.pc = IF Len(migration.pending) = 1 THEN "flagging" ELSE "storing"]
    /\ UNCHANGED <<globalState, apiKeysSetting>>

\* context.globalState.update(MIGRATION_COMPLETE_KEY, true) resolves (ok) or
\* rejects; nothing catches the rejection
FlagRespond(ok) ==
    /\ migration.pc = "flagging"
    /\ globalState' = IF ok THEN globalStateUpdate(globalState, TRUE) ELSE globalState
    /\ migration' =
           [migration EXCEPT
              !.pc = IF ~ok THEN "raised"
                     ELSE IF migration.oldApiKeys = <<>> THEN "returned"
                     ELSE "clearing"]
    /\ UNCHANGED <<apiKeysSetting, secrets>>

\* config.update("apiKeys", {}) resolves (ok) or rejects, then the messages
ClearRespond(ok) ==
    /\ migration.pc = "clearing"
    /\ apiKeysSetting' = IF ok THEN <<>> ELSE apiKeysSetting
    /\ migration' =
           [migration EXCEPT
              !.writes = Append(@, [to |-> "settings", key |-> <<>>, value |-> <<>>,
                                    ok |-> ok]),
              !.shown = MigrationMessages(migration.migratedCount, migration.errors),
              !.pc = "returned"]
    /\ UNCHANGED <<globalState, secrets>>

\* the bridge variables a migration leaves alone
bridgeVarsButSecrets ==
    <<host, extensionContext, statusBarItem, autoSync, docs, lastSyncedContent,
      changeDebounceTimers, timeouts, sockets, socketState, groveVersionCache, opens,
      saves, emitted, notification>>

-----------------------------------------------------------------------------
(* Code mode runs: the modes and tags the alias functions are applied to   *)

\* how long a mode or tag is
MaxModeLen == 3

ModeAlphabet == { "j", "s", "2" }

CodeModes ==
    UNION { [1..n -> ModeAlphabet] : n \in 0..MaxModeLen }
    \cup { ModeJavascript2, ModePython, Undef }

ModeIdle ==
    /\ modeIn = <<>>
    /\ modeMd = <<>>
    /\ modeGrove = <<>>
    /\ modePc = "idle"

ModeToMd ==
    /\ modePc = "input"
    /\ modeMd' = convertCodeModeToMd(modeIn)
    /\ modePc' = "md"
    /\ UNCHANGED <<modeIn, modeGrove>>

ModeToGrove ==
    /\ modePc = "md"
    /\ modeGrove' = convertCodeModeMdToGrove(modeMd)
    /\ modePc' = "grove"
    /\ UNCHANGED <<modeIn, modeMd>>

\* the input taken as the language tag of a fence
ModeFromMd ==
    /\ modePc = "input"
    /\ modeGrove' = convertCodeModeMdToGrove(modeIn)
    /\ modePc' = "fromMd"
    /\ UNCHANGED <<modeIn, modeMd>>

-----------------------------------------------------------------------------
(* Deep links: handleUri, the pending slot and the re-triggered URI        *)

\* how many deep links the operating system delivers
MaxLinks == 2

\* how many URIs the windows re-trigger for one deep link before the model
\* stops counting
MaxRetriggers == 2

Links == 1..MaxLinks

TextNull == <<"n", "u", "l", "l">>
RetryOne == <<"1">>

\* The query parameters of a deep link as URLSearchParams.get returns them:
\* Null for a parameter the URI does not carry.
UriChoices ==
    [open : { Null, RemotePathDemo },
     baseUrl : { Null, OriginLocalhost3000 },
     retry : { Null, RetryOne }]

\* a handler that takes no URI for a retry
IsRetry_Never(uri) == FALSE

\* queryParams.get("retry") === "1"
IsRetry(uri) == uri.retry = RetryOne

\* A value put into the re-triggered URI by the template literal and
\* encodeURIComponent, as the URLSearchParams of the receiving window decode it
ThroughUri(v) == IF v = Null THEN TextNull ELSE v

\* the URI handleUri hands to vscode.env.openExternal
RetryUri(uri) ==
    [link |-> uri.link, open |-> ThroughUri(uri.open),
     baseUrl |-> ThroughUri(uri.baseUrl), retry |-> RetryOne]

\* openGroveFile(baseUrl, filePath): createLocalFilePath, which stands
\* before the try, raises a TypeError for a null argument
OpenRequest(baseUrl, filePath) ==
    [baseUrl |-> baseUrl, filePath |-> filePath,
     threw |-> baseUrl = Null \/ filePath = Null]

UriIdle ==
    /\ pendingFile = <<>>
    /\ inbox = {}
    /\ delayed = {}
    /\ windowsOpened = 0
    /\ retriggers = [l \in Links |-> 0]
    /\ openRequests = <<>>
    /\ arrived = 0

\* the operating system delivers a deep link
LinkArrives(uri) ==
    /\ arrived < MaxLinks
    /\ arrived' = arrived + 1
    /\ inbox' = inbox \cup { [link |-> arrived + 1, open |-> uri.open,
                              baseUrl |-> uri.baseUrl, retry |-> uri.retry] }
    /\ UNCHANGED <<pendingFile, delayed, windowsOpened, retriggers, openRequests>>

\* handleUri in the window that receives the URI, up to delay(500) or to its
\* end; inWorkingDir tells whether the folder of that window is the working
\* directory
HandleUri(uri, inWorkingDir) ==
    /\ uri \in inbox
    /\ inbox' = inbox \ { uri }
    /\ IF uri.open = Null
       THEN UNCHANGED <<pendingFile, delayed, windowsOpened, openRequests>>
       ELSE IF ~inWorkingDir
       THEN /\ pendingFile' = <<[baseUrl |-> uri.baseUrl, filePath |-> uri.open]>>
            /\ windowsOpened' = windowsOpened + 1
            /\ delayed' = IF IsRetry(uri) THEN delayed ELSE delayed \cup { uri }
            /\ UNCHANGED openRequests
       ELSE /\ pendingFile' = <<>>
            /\ openRequests' = Append(openRequests, OpenRequest(uri.baseUrl, uri.open))
            /\ UNCHANGED <<delayed, windowsOpened>>
    /\ UNCHANGED <<retriggers, arrived>>

\* handleUri after delay(500): the URI is re-triggered with retry=1
RetriggerUri(uri) ==
    /\ uri \in delayed
    /\ retriggers[uri.link] < MaxRetriggers
    /\ delayed' = delayed \ { uri }
    /\ retriggers' = [retriggers EXCEPT ![uri.link] = @ + 1]
    /\ inbox' = inbox \cup { RetryUri(uri) }
    /\ UNCHANGED <<pendingFile, windowsOpened, openRequests, arrived>>

\* checkAndOpenPendingFile in a window of the working directory, on
\* activation or when the window gains focus, when the slot is taken
CheckPending ==
    /\ pendingFile # <<>>
    /\ pendingFile' = <<>>
    /\ openRequests' =
           Append(openRequests, OpenRequest(pendingFile[1].baseUrl, pendingFile[1].filePath))
    /\ UNCHANGED <<inbox, delayed, windowsOpened, retriggers, arrived>>

vars == <<pathVars, convVars, verVars, mdVars, migVars, modeVars, uriVars, envVars, bridgeVars>>

InitPath ==
    /\ pathIn \in PathInputs
    /\ pathLocal = <<>>
    /\ pathOut = NoParse
    /\ pathPc = "input"
    /\ pathUpload = NoUpload
    /\ ConvIdle
    /\ VerIdle
    /\ MdIdle
    /\ MigIdle
    /\ ModeIdle
    /\ UriIdle
    /\ EnvIdle
    /\ BridgeIdle

NextPath ==
    \/ PathEncode /\ UNCHANGED <<convVars, verVars, mdVars, migVars, modeVars, uriVars, envVars, bridgeVars>>
    \/ PathDecode /\ UNCHANGED <<convVars, verVars, mdVars, migVars, modeVars, uriVars, envVars, bridgeVars>>
    \/ PathSave /\ UNCHANGED <<convVars, verVars, mdVars, migVars, modeVars, uriVars, envVars, bridgeVars>>
    \/ \E file \in OtherFiles(pathLocal) :
           PathSaveOther(file) /\ UNCHANGED <<convVars, verVars, mdVars, migVars, modeVars, uriVars, envVars, bridgeVars>>

SpecPath == InitPath /\ [][NextPath]_vars

InitConv ==
    /\ convIn \in BlockLists
    /\ convMd = [threw |-> FALSE, text |-> <<>>]
    /\ convOut = NoConversion
    /\ convPc = "input"
    /\ PathIdle
    /\ VerIdle
    /\ MdIdle
    /\ MigIdle
    /\ ModeIdle
    /\ UriIdle
    /\ EnvIdle
    /\ BridgeIdle

NextConv ==
    \/ ConvDecode /\ UNCHANGED <<pathVars, verVars, mdVars, migVars, modeVars, uriVars, envVars, bridgeVars>>
    \/ ConvEncode /\ UNCHANGED <<pathVars, verVars, mdVars, migVars, modeVars, uriVars, envVars, bridgeVars>>

SpecConv == InitConv /\ [][NextConv]_vars

InitVersion ==
    /\ verIn \in [version : VersionStrings, minVersion : VersionStrings]
    /\ verOut = FALSE
    /\ verPc = "input"
    /\ PathIdle
    /\ ConvIdle
    /\ MdIdle
    /\ MigIdle
    /\ ModeIdle
    /\ UriIdle
    /\ EnvIdle
    /\ BridgeIdle

NextVersion ==
    \/ VersionCompare /\ UNCHANGED <<pathVars, convVars, mdVars, migVars, modeVars, uriVars, envVars, bridgeVars>>

SpecVersion == InitVersion /\ [][NextVersion]_vars

InitEncode ==
    /\ mdIn \in MdPartLists
    /\ mdOut = NoConversion
    /\ mdPrev = NoConversion
    /\ mdPc = "input"
    /\ PathIdle
    /\ ConvIdle
    /\ VerIdle
    /\ MigIdle
    /\ ModeIdle
    /\ UriIdle
    /\ EnvIdle
    /\ BridgeIdle

NextEncode ==
    \/ EncodeMarkdown /\ UNCHANGED <<pathVars, convVars, verVars, migVars, modeVars, uriVars, envVars, bridgeVars>>
    \/ EncodeAgain /\ UNCHANGED <<pathVars, convVars, verVars, migVars, modeVars, uriVars, envVars, bridgeVars>>

SpecEncode == InitEncode /\ [][NextEncode]_vars

\* The sessions of one installation: the flag may be set or not, the
\* settings hold a legacy map or none, the vault holds the keys set by hand.
InitMigrate ==
    /\ globalState \in BOOLEAN
    /\ apiKeysSetting \in LegacyMaps
    /\ migration = NoMigration
    /\ PathIdle
    /\ ConvIdle
    /\ VerIdle
    /\ MdIdle
    /\ ModeIdle
    /\ UriIdle
    /\ EnvIdle
    /\ BridgeInit
    /\ autoSync = FALSE

NextMigrate ==
    \/ MigrateStart
         /\ UNCHANGED <<pathVars, convVars, verVars, mdVars, modeVars, uriVars, envVars, bridgeVarsButSecrets>>
    \/ \E ok \in BOOLEAN :
            StoreRespond(ok)
            /\ UNCHANGED <<pathVars, convVars, verVars, mdVars, modeVars, uriVars, envVars, bridgeVarsButSecrets>>
    \/ \E ok \in BOOLEAN :
            FlagRespond(ok)
            /\ UNCHANGED <<pathVars, convVars, verVars, mdVars, modeVars, uriVars, envVars, bridgeVarsButSecrets>>
    \/ \E ok \in BOOLEAN :
            ClearRespond(ok)
            /\ UNCHANGED <<pathVars, convVars, verVars, mdVars, modeVars, uriVars, envVars, bridgeVarsButSecrets>>

SpecMigrate == InitMigrate /\ [][NextMigrate]_vars

InitMode ==
    /\ modeIn \in CodeModes
    /\ modeMd = <<>>
    /\ modeGrove = <<>>
    /\ modePc = "input"
    /\ PathIdle
    /\ ConvIdle
    /\ VerIdle
    /\ MdIdle
    /\ MigIdle
    /\ UriIdle
    /\ EnvIdle
    /\ BridgeIdle

NextMode ==
    \/ ModeToMd
         /\ UNCHANGED <<pathVars, convVars, verVars, mdVars, migVars, uriVars, envVars, bridgeVars>>
    \/ ModeToGrove
         /\ UNCHANGED <<pathVars, convVars, verVars, mdVars, migVars, uriVars, envVars, bridgeVars>>
    \/ ModeFromMd
         /\ UNCHANGED <<pathVars, convVars, verVars, mdVars, migVars, uriVars, envVars, bridgeVars>>

SpecMode == InitMode /\ [][NextMode]_vars

InitUri ==
    /\ UriIdle
    /\ EnvIdle
    /\ PathIdle
    /\ ConvIdle
    /\ VerIdle
    /\ MdIdle
    /\ MigIdle
    /\ ModeIdle
    /\ BridgeIdle

NextUri ==
    \/ \E uri \in UriChoices :
            LinkArrives(uri)
            /\ UNCHANGED <<pathVars, convVars, verVars, mdVars, migVars, modeVars, envVars, bridgeVars>>
    \/ \E uri \in inbox, inWorkingDir \in BOOLEAN :
            HandleUri(uri, inWorkingDir)
            /\ UNCHANGED <<pathVars, convVars, verVars, mdVars, migVars, modeVars, envVars, bridgeVars>>
    \/ \E uri \in delayed :
            RetriggerUri(uri)
            /\ UNCHANGED <<pathVars, convVars, verVars, mdVars, migVars, modeVars, envVars, bridgeVars>>
    \/ CheckPending
         /\ UNCHANGED <<pathVars, convVars, verVars, mdVars, migVars, modeVars, envVars, bridgeVars>>

SpecUri == InitUri /\ [][NextUri]_vars

Init ==
    /\ BridgeInit
    /\ autoSync \in BOOLEAN
    /\ PathIdle
    /\ ConvIdle
    /\ VerIdle
    /\ MdIdle
    /\ MigIdle
    /\ ModeIdle
    /\ UriIdle
    /\ EnvIdle

Next ==
    \/ Activate /\ UNCHANGED <<pathVars, convVars, verVars, mdVars, migVars, modeVars, uriVars, envVars>>
    \/ Deactivate /\ UNCHANGED <<pathVars, convVars, verVars, mdVars, migVars, modeVars, uriVars, envVars>>
    \/ \E o \in Origins : SetApiKey(o) /\ UNCHANGED <<pathVars, convVars, verVars, mdVars, migVars, modeVars, uriVars, envVars>>
    \/ \E o \in Origins : DeleteApiKey(o) /\ UNCHANGED <<pathVars, convVars, verVars, mdVars, migVars, modeVars, uriVars, envVars>>
    \/ \E d \in OneDoc : OpenStart(d) /\ UNCHANGED <<pathVars, convVars, verVars, mdVars, migVars, modeVars, uriVars, envVars>>
    \/ \E d \in OneDoc : OpenGotKey(d) /\ UNCHANGED <<pathVars, convVars, verVars, mdVars, migVars, modeVars, uriVars, envVars>>
    \/ \E d \in OneDoc, r \in DownloadResponses :
            OpenRespond(d, r) /\ UNCHANGED <<pathVars, convVars, verVars, mdVars, migVars, modeVars, uriVars, envVars>>
    \/ \E d \in OneDoc, t \in Texts :
            HandleDocumentChange(d, t) /\ UNCHANGED <<pathVars, convVars, verVars, mdVars, migVars, modeVars, uriVars, envVars>>
    \/ \E d \in OneDoc : UserSave(d) /\ UNCHANGED <<pathVars, convVars, verVars, mdVars, migVars, modeVars, uriVars, envVars>>
    \/ \E d \in OneDoc : TimerFire(d) /\ UNCHANGED <<pathVars, convVars, verVars, mdVars, migVars, modeVars, uriVars, envVars>>
    \/ \E s \in 1..MaxSaves : SaveGotKey(s) /\ UNCHANGED <<pathVars, convVars, verVars, mdVars, migVars, modeVars, uriVars, envVars>>
    \/ \E s \in 1..MaxSaves, r \in ProbeResponses :
            ProbeRespond(s, r) /\ UNCHANGED <<pathVars, convVars, verVars, mdVars, migVars, modeVars, uriVars, envVars>>
    \/ \E s \in 1..MaxSaves, r \in UploadResponses :
            UploadRespond(s, r) /\ UNCHANGED <<pathVars, convVars, verVars, mdVars, migVars, modeVars, uriVars, envVars>>
    \/ \E k \in 1..MaxSockets : SocketDisconnect(k) /\ UNCHANGED <<pathVars, convVars, verVars, mdVars, migVars, modeVars, uriVars, envVars>>
    \/ \E k \in 1..(MaxSockets + 1) : SocketReconnect(k) /\ UNCHANGED <<pathVars, convVars, verVars, mdVars, migVars, modeVars, uriVars, envVars>>

Spec == Init /\ [][Next]_vars

\* An editing session: the setting, the active editor and the documents
\* change under the user's hands, while the vault keeps its keys and the
\* connections stay up.
NextEditing ==
    \/ Activate /\ UNCHANGED <<pathVars, convVars, verVars, mdVars, migVars, modeVars, uriVars, envVars>>
    \/ Deactivate /\ UNCHANGED <<pathVars, convVars, verVars, mdVars, migVars, modeVars, uriVars, envVars>>
    \/ \E enabled \in BOOLEAN : SetAutoSync(enabled) /\ UNCHANGED <<pathVars, convVars, verVars, mdVars, migVars, modeVars, uriVars, envVars>>
    \/ \E editor \in Editors :
            ChangeActiveEditor(editor) /\ UNCHANGED <<pathVars, convVars, verVars, mdVars, migVars, modeVars, uriVars, envVars>>
    \/ \E d \in OneDoc : OpenStart(d) /\ UNCHANGED <<pathVars, convVars, verVars, mdVars, migVars, modeVars, uriVars, envVars>>
    \/ \E d \in OneDoc : OpenGotKey(d) /\ UNCHANGED <<pathVars, convVars, verVars, mdVars, migVars, modeVars, uriVars, envVars>>
    \/ \E d \in OneDoc, r \in DownloadResponses :
            OpenRespond(d, r) /\ UNCHANGED <<pathVars, convVars, verVars, mdVars, migVars, modeVars, uriVars, envVars>>
    \/ \E d \in OneDoc, t \in Texts :
            HandleDocumentChange(d, t) /\ UNCHANGED <<pathVars, convVars, verVars, mdVars, migVars, modeVars, uriVars, envVars>>
    \/ \E d \in OneDoc : CloseDocument(d) /\ UNCHANGED <<pathVars, convVars, verVars, mdVars, migVars, modeVars, uriVars, envVars>>
    \/ \E d \in OneDoc : UserSave(d) /\ UNCHANGED <<pathVars, convVars, verVars, mdVars, migVars, modeVars, uriVars, envVars>>
    \/ \E d \in OneDoc : TimerFire(d) /\ UNCHANGED <<pathVars, convVars, verVars, mdVars, migVars, modeVars, uriVars, envVars>>
    \/ \E s \in 1..MaxSaves : SaveGotKey(s) /\ UNCHANGED <<pathVars, convVars, verVars, mdVars, migVars, modeVars, uriVars, envVars>>
    \/ \E s \in 1..MaxSaves, r \in ProbeResponses :
            ProbeRespond(s, r) /\ UNCHANGED <<pathVars, convVars, verVars, mdVars, migVars, modeVars, uriVars, envVars>>
    \/ \E s \in 1..MaxSaves, r \in UploadResponses :
            UploadRespond(s, r) /\ UNCHANGED <<pathVars, convVars, verVars, mdVars, migVars, modeVars, uriVars, envVars>>

SpecEditing == Init /\ [][NextEditing]_vars

\* Opening and viewing: documents are downloaded, shown, closed and opened
\* again, with every kind of body the server can answer with.
NextOpen ==
    \/ Activate /\ UNCHANGED <<pathVars, convVars, verVars, mdVars, migVars, modeVars, uriVars, envVars>>
    \/ Deactivate /\ UNCHANGED <<pathVars, convVars, verVars, mdVars, migVars, modeVars, uriVars, envVars>>
    \/ \E o \in Origins : SetApiKey(o) /\ UNCHANGED <<pathVars, convVars, verVars, mdVars, migVars, modeVars, uriVars, envVars>>
    \/ \E o \in Origins : DeleteApiKey(o) /\ UNCHANGED <<pathVars, convVars, verVars, mdVars, migVars, modeVars, uriVars, envVars>>
    \/ \E editor \in Editors :
            ChangeActiveEditor(editor) /\ UNCHANGED <<pathVars, convVars, verVars, mdVars, migVars, modeVars, uriVars, envVars>>
    \/ \E d \in OneDoc : OpenStart(d) /\ UNCHANGED <<pathVars, convVars, verVars, mdVars, migVars, modeVars, uriVars, envVars>>
    \/ \E d \in OneDoc : OpenGotKey(d) /\ UNCHANGED <<pathVars, convVars, verVars, mdVars, migVars, modeVars, uriVars, envVars>>
    \/ \E d \in OneDoc, r \in DownloadBodies :
            OpenRespond(d, r) /\ UNCHANGED <<pathVars, convVars, verVars, mdVars, migVars, modeVars, uriVars, envVars>>
    \/ \E d \in OneDoc : CloseDocument(d) /\ UNCHANGED <<pathVars, convVars, verVars, mdVars, migVars, modeVars, uriVars, envVars>>

SpecOpen == Init /\ [][NextOpen]_vars

\* the groups of the unit runs, which a session of the bridge leaves alone
unitVars == <<pathVars, convVars, verVars, mdVars, migVars, modeVars, uriVars>>

\* the bridge before the editor loads it, with nothing around it looked at
InitSession ==
    /\ BridgeIdle
    /\ EnvIdle
    /\ PathIdle
    /\ ConvIdle
    /\ VerIdle
    /\ MdIdle
    /\ MigIdle
    /\ ModeIdle
    /\ UriIdle

\* Saving against a server that stores each upload before it answers, and
\* that accepts every upload: the uploads of overlapping saves reach the
\* server in any order, and their responses come back in any order.
NextServer ==
    \/ Activate /\ UNCHANGED <<unitVars, envVars>>
    \/ \E d \in OneDoc : OpenStart(d) /\ UNCHANGED <<unitVars, envVars>>
    \/ \E d \in OneDoc : OpenGotKey(d) /\ UNCHANGED <<unitVars, envVars>>
    \/ \E d \in OneDoc, r \in DownloadResponses :
            OpenRespond(d, r) /\ UNCHANGED <<unitVars, envVars>>
    \/ \E d \in OneDoc, t \in Texts :
            HandleDocumentChange(d, t) /\ UNCHANGED <<unitVars, envVars>>
    \/ \E d \in OneDoc : UserSave(d) /\ UNCHANGED <<unitVars, envVars>>
    \/ \E s \in 1..MaxSaves : SaveGotKey(s) /\ UNCHANGED <<unitVars, envVars>>
    \/ \E s \in 1..MaxSaves, r \in ProbeResponses :
            ProbeRespond(s, r) /\ UNCHANGED <<unitVars, envVars>>
    \/ \E s \in 1..MaxSaves : ServerStore(s) /\ UNCHANGED unitVars
    \/ \E s \in 1..MaxSaves, r \in { u \in UploadResponses : UploadAccepted(u) } :
            UploadRespond(s, r) /\ ServerRespond(s, r) /\ UNCHANGED unitVars

SpecServer == InitSession /\ [][NextServer]_vars

\* Two managed documents open side by side: the user moves the focus between
\* them, edits and saves either, whichever is the active editor. The server
\* answers every download with a remote document and every probe with
\* version 2.0.0.
NextFocus ==
    \/ Activate /\ UNCHANGED <<unitVars, envVars>>
    \/ \E d \in Docs : OpenStart(d) /\ UNCHANGED <<unitVars, envVars>>
    \/ \E d \in Docs : OpenGotKey(d) /\ UNCHANGED <<unitVars, envVars>>
    \/ \E d \in Docs, r \in { x \in DownloadResponses : x.grove } :
            OpenRespond(d, r) /\ FocusAfterOpen(d, r) /\ UNCHANGED unitVars
    \/ \E editor \in Editors :
            ChangeActiveEditor(editor) /\ FocusOn(editor) /\ UNCHANGED unitVars
    \/ \E d \in Docs, t \in Texts :
            HandleDocumentChange(d, t) /\ UNCHANGED <<unitVars, envVars>>
    \/ \E d \in Docs : UserSave(d) /\ UNCHANGED <<unitVars, envVars>>
    \/ \E s \in 1..MaxSaves : SaveGotKey(s) /\ UNCHANGED <<unitVars, envVars>>
    \/ \E s \in 1..MaxSaves :
            ProbeRespond(s, ProbeResponse(FALSE, TRUE, TRUE, Version200))
            /\ UNCHANGED <<unitVars, envVars>>
    \/ \E s \in 1..MaxSaves, r \in UploadResponses :
            UploadRespond(s, r) /\ UNCHANGED <<unitVars, envVars>>

SpecFocus == InitSession /\ [][NextFocus]_vars

\* Editing with auto-sync on, against a server that accepts every upload: the
\* user makes up to MaxChanges content changes and then stops. What the code
\* and the network do by themselves happens sooner or later: a debounce
\* timer that runs fires, getApiKey answers, and each request gets its
\* response.
\* A session in which connections are lost and made again, MaxChanges times
\* at most, whatever number of sockets exists.
NextSockets ==
    \/ Activate /\ UNCHANGED <<unitVars, envVars>>
    \/ \E d \in OneDoc : OpenStart(d) /\ UNCHANGED <<unitVars, envVars>>
    \/ \E d \in OneDoc : OpenGotKey(d) /\ UNCHANGED <<unitVars, envVars>>
    \/ \E d \in OneDoc, r \in { x \in DownloadResponses : x.grove } :
            OpenRespond(d, r) /\ UNCHANGED <<unitVars, envVars>>
    \/ \E d \in OneDoc : UserSave(d) /\ UNCHANGED <<unitVars, envVars>>
    \/ \E s \in 1..MaxSaves : SaveGotKey(s) /\ UNCHANGED <<unitVars, envVars>>
    \/ \E s \in 1..MaxSaves :
            ProbeRespond(s, ProbeResponse(FALSE, TRUE, TRUE, Version200))
            /\ UNCHANGED <<unitVars, envVars>>
    \/ \E s \in 1..MaxSaves, r \in { u \in UploadResponses : UploadAccepted(u) } :
            UploadRespond(s, r) /\ UNCHANGED <<unitVars, envVars>>
    \/ \E k \in 1..(MaxChanges + 1) :
            SocketLost(k) /\ CountChange /\ UNCHANGED unitVars
    \/ \E k \in 1..(MaxChanges + 1) :
            SocketReconnect(k) /\ UNCHANGED <<unitVars, envVars>>

SpecSockets == InitSession /\ [][NextSockets]_vars

\* A session of saves by hand in which every request is answered in the end,
\* with whatever answer, and the document takes any text MaxChanges times.
SavingGotKey == \E s \in 1..MaxSaves : SaveGotKey(s) /\ UNCHANGED <<unitVars, envVars>>

SavingProbeRespond ==
    \E s \in 1..MaxSaves, r \in ProbeResponses :
        ProbeRespond(s, r) /\ UNCHANGED <<unitVars, envVars>>

SavingUploadRespond ==
    \E s \in 1..MaxSaves, r \in UploadResponses :
        UploadRespond(s, r) /\ UNCHANGED <<unitVars, envVars>>

NextSaving ==
    \/ Activate /\ UNCHANGED <<unitVars, envVars>>
    \/ \E d \in OneDoc : OpenStart(d) /\ UNCHANGED <<unitVars, envVars>>
    \/ \E d \in OneDoc : OpenGotKey(d) /\ UNCHANGED <<unitVars, envVars>>
    \/ \E d \in OneDoc, r \in { x \in DownloadResponses : x.grove } :
            OpenRespond(d, r) /\ UNCHANGED <<unitVars, envVars>>
    \/ \E d \in OneDoc, t \in AllTexts :
            HandleDocumentChange(d, t) /\ CountChange /\ UNCHANGED unitVars
    \/ \E d \in OneDoc : UserSave(d) /\ UNCHANGED <<unitVars, envVars>>
    \/ SavingGotKey
    \/ SavingProbeRespond
    \/ SavingUploadRespond

SpecSaving ==
    /\ InitSession
    /\ [][NextSaving]_vars
    /\ WF_vars(SavingGotKey)
    /\ WF_vars(SavingProbeRespond)
    /\ WF_vars(SavingUploadRespond)

InitAutoSync ==
    /\ BridgeInit
    /\ autoSync = TRUE
    /\ EnvIdle
    /\ PathIdle
    /\ ConvIdle
    /\ VerIdle
    /\ MdIdle
    /\ MigIdle
    /\ ModeIdle
    /\ UriIdle

AutoTimerFire == \E d \in OneDoc : TimerFire(d) /\ UNCHANGED <<unitVars, envVars>>

AutoSaveGotKey == \E s \in 1..MaxSaves : SaveGotKey(s) /\ UNCHANGED <<unitVars, envVars>>

AutoProbeRespond ==
    \E s \in 1..MaxSaves, r \in ProbeResponses :
        ProbeRespond(s, r) /\ UNCHANGED <<unitVars, envVars>>

AutoUploadRespond ==
    \E s \in 1..MaxSaves, r \in { u \in UploadResponses : UploadAccepted(u) } :
        UploadRespond(s, r) /\ UNCHANGED <<unitVars, envVars>>

NextAutoSync ==
    \/ Activate /\ UNCHANGED <<unitVars, envVars>>
    \/ \E d \in OneDoc : OpenStart(d) /\ UNCHANGED <<unitVars, envVars>>
    \/ \E d \in OneDoc : OpenGotKey(d) /\ UNCHANGED <<unitVars, envVars>>
    \/ \E d \in OneDoc, r \in DownloadResponses :
            OpenRespond(d, r) /\ UNCHANGED <<unitVars, envVars>>
    \/ \E d \in OneDoc, t \in Texts :
            HandleDocumentChange(d, t) /\ CountChange /\ UNCHANGED unitVars
    \/ AutoTimerFire
    \/ AutoSaveGotKey
    \/ AutoProbeRespond
    \/ AutoUploadRespond

SpecAutoSync ==
    /\ InitAutoSync
    /\ [][NextAutoSync]_vars
    /\ WF_vars(AutoTimerFire)
    /\ WF_vars(AutoSaveGotKey)
    /\ WF_vars(AutoProbeRespond)
    /\ WF_vars(AutoUploadRespond)

-----------------------------------------------------------------------------
(* Claims about the bridge                                                 *)

\* C1: for a managed document with a last-synced record, a content change
\* to a text other than the record sets the status to Modified; a content
\* change to the text of the record sets the status to Synced, and the
\* change starts no save, no download and emits nothing; a save whose upload
\* succeeds sets the record to the text the save uploaded and the status to
\* Synced.
C1_SyncTransitions ==
    [][/\ \A d \in Docs, t \in Texts :
            (HandleDocumentChange(d, t) /\ lastSyncedContent[d] # Undef)
            => /\ t # lastSyncedContent[d] => statusBarItem'.text = "modified"
               /\ t = lastSyncedContent[d] => statusBarItem'.text = "synced"
               /\ saves' = saves /\ opens' = opens /\ emitted' = <<>>
               /\ sockets' = sockets
       /\ \A s \in 1..MaxSaves, r \in UploadResponses :
            (UploadRespond(s, r) /\ ~r.rejected /\ r.ok /\ statusBarItem.exists)
            => /\ lastSyncedContent'[saves[s].doc] = saves[s].content
               /\ statusBarItem'.text = "synced"]_vars

\* a save of TextB has just succeeded: the record and the document hold TextB
C1_Witness ==
    /\ statusBarItem.exists
    /\ statusBarItem.text = "synced"
    /\ emitted # <<>>
    /\ \E d \in Docs : docs[d].text = TextB /\ lastSyncedContent[d] = TextB

\* C2: when the upload request of a save returns a non-2xx status or throws,
\* the save ends with the status Modified, the last-synced records are the
\* ones from before the response and no reload request is emitted.
C2_UploadFailure ==
    [][\A s \in 1..MaxSaves, r \in UploadResponses :
            (UploadRespond(s, r) /\ (r.rejected \/ ~r.ok))
            => /\ statusBarItem.exists => statusBarItem'.text = "modified"
               /\ lastSyncedContent' = lastSyncedContent
               /\ emitted' = <<>>
               /\ Len(saves') = Len(saves) - 1]_vars

\* an upload has just failed for a document that has a last-synced record
C2_Witness ==
    /\ notification = "uploadFailed"
    /\ statusBarItem.text = "modified"
    /\ \E d \in Docs :
            lastSyncedContent[d] # Undef /\ docs[d].text # lastSyncedContent[d]

\* the versions whose major number is at least 2
C4_DirectVersions ==
    { version \in GroveVersions : DecimalValue(Split(version, ".")[1]) >= 2 }

C4_AtLeast200(version) == version \in C4_DirectVersions

\* JSON.stringify(convertMdToGrove(content)), tabulated
C4_LegacyForm ==
    [content \in Texts, uuid \in UuidBases |->
        JsonStringifyGrove(convertMdToGrove(content, uuid))]

C4_DataMatchesVersion(save) ==
    /\ (save.data = save.content) <=> C4_AtLeast200(save.version)
    /\ ~C4_AtLeast200(save.version)
       => save.data = C4_LegacyForm[save.content, save.uuid]

\* C4: the data of a save's upload is the document text unchanged exactly
\* when the version resolved for the origin is at least 2.0.0 and is
\* otherwise the JSON serialisation of convertMdToGrove(text); when the
\* version probe throws, the resolved version is 1.0.0 and the upload is the
\* legacy JSON form.
C4_UploadFormat ==
    /\ [](\A s \in 1..Len(saves) :
            saves[s].pc = "uploading" => C4_DataMatchesVersion(saves[s]))
    /\ [][\A s \in 1..MaxSaves, r \in ProbeResponses :
            (ProbeRespond(s, r) /\ r.rejected)
            => /\ saves'[s].version = <<"1", ".", "0", ".", "0">>
               /\ saves'[s].data = C4_LegacyForm[saves[s].content, saves'[s].uuid]]_vars

\* two uploads are under way: one of the text itself for version 2.0.0, one
\* in the legacy form for the default version
C4_Witness ==
    \E s, t \in 1..Len(saves) :
        /\ saves[s].pc = "uploading" /\ saves[t].pc = "uploading"
        /\ saves[s].version = Version200 /\ saves[s].data = saves[s].content
        /\ saves[t].version = DefaultGroveVersion
        /\ saves[t].data # saves[t].content

\* C5: for each save whose upload request returned 2xx, exactly one
\* requestReload message with the save's fileName and projectId is emitted
\* on the connection registered for the origin, in the step that receives the
\* response and updates the last-synced record; no other step emits one.
C5_ReloadOncePerUpload ==
    [][/\ \A s \in 1..MaxSaves, r \in UploadResponses :
            (UploadRespond(s, r) /\ ~r.rejected /\ r.ok)
            => /\ Len(emitted') = 1
               /\ emitted'[1].event = "requestReload"
               /\ emitted'[1].fileName = saves[s].target.fileName
               /\ emitted'[1].projectId = saves[s].target.projectId
               /\ emitted'[1].socket = sockets'[saves[s].target.baseUrl]
               /\ emitted'[1].socket # 0
               /\ Len(saves') = Len(saves) - 1
       /\ emitted' # <<>>
          => \E s \in 1..MaxSaves, r \in UploadResponses :
                UploadRespond(s, r) /\ ~r.rejected /\ r.ok]_vars

\* a reload request for notebooks/demo of project abc123 has just been emitted
C5_Witness ==
    /\ Len(emitted) = 1
    /\ emitted[1].fileName = Join(<<SegNotebooks, SegDemo>>, <<"/">>)
    /\ emitted[1].projectId = ProjectAbc123
    /\ notification = "saved"

\* C6: at every moment each origin has at most one live connection among the
\* sockets the bridge created.
C6_OneConnectionPerOrigin ==
    \A o \in Origins :
        Cardinality({ k \in DOMAIN socketState :
                        socketState[k].baseUrl = o /\ socketState[k].state = "live" }) <= 1

\* C39: a lost connection removes its origin's registry entry only while it
\* is the connection registered for the origin: the disconnect of a socket
\* registered earlier leaves the entry of a newer socket of the origin alone.
C39_OnlyRegisteredSocketRemoves ==
    [][\A k \in 1..(MaxChanges + 1) :
          (SocketLost(k) /\ sockets[socketState[k].baseUrl] # k)
          => sockets' = sockets]_vars

\* C35: Syncing is transient: whenever a save has set the status to Syncing,
\* the status later reads Synced or Modified, on every path through the
\* save, a path on which the conversion of the text raises included.
C35_SyncingIsTransient ==
    (statusBarItem.text = SyncStatus.SYNCING)
    ~> (statusBarItem.text \in { SyncStatus.SYNCED, SyncStatus.MODIFIED })

\* C7: while the extension is active, a version probe of an origin that
\* succeeds is the only probe sent to that origin: no other save is waiting
\* for a probe of the same origin when the answer arrives.
C7_SingleProbePerOrigin ==
    [][\A s \in 1..MaxSaves, r \in ProbeResponses :
            (host = "active" /\ ProbeRespond(s, r)
               /\ ~r.rejected /\ r.ok /\ r.json)
            => \A t \in 1..Len(saves) :
                    (t # s /\ saves[t].target.baseUrl = saves[s].target.baseUrl)
                    => saves[t].pc # "probing"]_vars

\* C8: a probe that fails (network error, unparseable body or a non-2xx
\* response) leaves the version cache as it was.
C8_FailedProbeNotCached ==
    [][\A s \in 1..MaxSaves, r \in ProbeResponses :
            (ProbeRespond(s, r) /\ (r.rejected \/ ~r.json \/ ~r.ok))
            => groveVersionCache' = groveVersionCache]_vars

\* C12: when the vault holds no secret for the origin, an open and a save
\* each send no request (the open does not reach its download, the save
\* ends before its probe and its upload) and create no connection; the save
\* ends with the status Modified and leaves the last-synced records as they
\* were.
C12_MissingCredential ==
    [][/\ \A d \in Docs :
            (OpenGotKey(d) /\ DocOrigin[d] \notin secrets)
            => /\ opens'[d] = "idle"
               /\ saves' = saves
               /\ socketState' = socketState /\ sockets' = sockets
               /\ docs' = docs /\ lastSyncedContent' = lastSyncedContent
       /\ \A s \in 1..MaxSaves :
            (SaveGotKey(s) /\ saves[s].target.baseUrl \notin secrets)
            => /\ saves' = RemoveAt(saves, s)
               /\ opens' = opens
               /\ socketState' = socketState /\ sockets' = sockets
               /\ groveVersionCache' = groveVersionCache
               /\ statusBarItem.exists => statusBarItem'.text = "modified"
               /\ lastSyncedContent' = lastSyncedContent]_vars

C12_Witness ==
    /\ notification = "noKey"
    /\ saves = <<>>
    /\ statusBarItem.exists /\ statusBarItem.text = "modified"
    /\ \E d \in Docs : /\ DocOrigin[d] \notin secrets
                       /\ lastSyncedContent[d] # Undef
                       /\ docs[d].text # lastSyncedContent[d]

\* C13: with auto-sync enabled, a content change of a managed document
\* cancels the document's pending timer and starts a new one: after the
\* change the only timer pending for the document is the one the change
\* started, and it is the one the map keeps; at every moment at most one timer
\* is pending per document; a timer that expires is no longer pending, and
\* its expiry starts a save only if the document is open and dirty, and
\* otherwise leaves the saves, the document and the indicator alone.
C13_Debounce ==
    /\ [](\A d \in Docs : Cardinality(TimersOf(timeouts, d)) <= 1)
    /\ [][/\ (\A d \in Docs, t \in Texts :
                 (HandleDocumentChange(d, t) /\ autoSync)
                 => /\ TimersOf(timeouts', d) = { [doc |-> d, text |-> t] }
                    /\ TimersOf(changeDebounceTimers', d) = { [doc |-> d, text |-> t] })
           /\ \A e \in Docs :
                TimerFire(e)
                => /\ TimersOf(timeouts', e) = {}
                   /\ saves' # saves => (docs[e].open /\ docs[e].dirty)
                   /\ ~(docs[e].open /\ docs[e].dirty)
                      => /\ saves' = saves
                         /\ docs' = docs
                         /\ statusBarItem' = statusBarItem]_vars

C13_Witness ==
    /\ autoSync
    /\ \E d \in Docs :
            /\ timeouts = { [doc |-> d, text |-> TextA] }
            /\ changeDebounceTimers = timeouts
            /\ docs[d].text = TextA /\ docs[d].dirty
            /\ lastSyncedContent[d] = TextA
            /\ saves = <<>>

\* C14: while the autoSync setting is false the bridge starts no save of
\* its own: a content change starts no save and no timer, and every save that
\* starts is the user's explicit save.
C14_NoSaveWhileOff ==
    [][~autoSync
       => /\ (\A d \in Docs, t \in Texts :
                 HandleDocumentChange(d, t)
                 => saves' = saves /\ timeouts' = timeouts)
          /\ Len(saves') > Len(saves) => \E e \in Docs : UserSave(e)]_vars

C32_Settled(d) ==
    docs[d].open
    => /\ \A s \in 1..Len(saves) : saves[s].doc # d
       /\ lastSyncedContent[d] = docs[d].text
       /\ statusBarItem.text = SyncStatus.SYNCED

\* C32: with auto-sync on, once the edits to a managed document stop and
\* every upload succeeds, eventually no save of it is under way, its
\* last-synced record equals its content and the status is Synced, and it
\* stays so, for every interleaving of overlapping saves and every order of
\* upload responses.
C32_EventuallySynced ==
    <>[](\A d \in OneDoc : C32_Settled(d))

\* C33: whenever no save of a document is under way and every save of it so
\* far succeeded, the content the server stores for the file is the upload
\* form of the document's last-synced content, for every order in which the
\* server receives overlapping uploads and every order in which their
\* responses arrive.
C33_ServerHoldsSyncedContent ==
    \A d \in Docs :
        (/\ stored[d] # Undef
         /\ lastSyncedContent[d] # Undef
         /\ \A s \in 1..Len(saves) : saves[s].doc # d)
        => \E version \in GroveVersions, uuid \in UuidBases :
              stored[d] = UploadForm[lastSyncedContent[d], version, uuid].data

\* C31: whenever the indicator shows Synced for the active managed document
\* and no save of that document is under way, the document's content equals
\* its last-synced record, also when the document was edited while an upload
\* of its earlier content was under way.
C31_SyncedMeansEqual ==
    \A d \in Docs :
        (/\ host = "active"
         /\ docs[d].open
         /\ statusBarItem.visible
         /\ statusBarItem.text = SyncStatus.SYNCED
         /\ \A s \in 1..Len(saves) : saves[s].doc # d)
        => docs[d].text = lastSyncedContent[d]

\* C34: the status shown by the indicator describes the active document:
\* while another managed document is the active editor and the indicator is
\* shown, the completion of a save of a document and a content change of a
\* document leave the indicator as it is.
C34_StatusOfActiveDocument ==
    [][/\ \A s \in 1..Len(saves), r \in UploadResponses :
            (/\ UploadRespond(s, r)
             /\ statusBarItem.visible
             /\ activeEditor \in Docs \ { saves[s].doc })
            => statusBarItem' = statusBarItem
       /\ \A d \in Docs, t \in Texts :
            (/\ HandleDocumentChange(d, t)
             /\ statusBarItem.visible
             /\ activeEditor \in Docs \ { d })
            => statusBarItem' = statusBarItem]_vars

\* C21: when several saves of one document overlap, every accepted upload
\* response sets the last-synced record to the content its own save captured,
\* whatever the position of that save among the saves under way, every other
\* upload response leaves the record alone, and while saves are under way
\* nothing else writes the record of an active session: once all saves have
\* completed the record is the content of the save whose accepted response
\* arrived last.
C21_LastResponseWins ==
    [][/\ \A s \in 1..Len(saves), r \in UploadResponses :
            UploadRespond(s, r)
            => lastSyncedContent'[saves[s].doc]
                  = IF ~r.rejected /\ r.ok THEN saves[s].content
                    ELSE lastSyncedContent[saves[s].doc]
       /\ (saves # <<>> /\ host' = "active" /\ lastSyncedContent' # lastSyncedContent)
          => \E s \in 1..Len(saves) :
                /\ saves[s].pc = "uploading"
                /\ saves' = RemoveAt(saves, s)
                /\ notification' = "saved"]_vars

\* two saves of one document were waiting for their upload responses; the
\* response for the save that captured TextB arrived first and was accepted,
\* the save that captured TextA still waits
C21_Witness ==
    /\ host = "active"
    /\ notification = "saved"
    /\ Len(saves) = 1
    /\ saves[1].pc = "uploading"
    /\ saves[1].content = TextA
    /\ lastSyncedContent[saves[1].doc] = TextB

\* C22: the last-synced record of a document exists only while the document
\* is open and the extension is active: closing the document removes its
\* record, and deactivation removes all records.
C22_RecordOnlyWhileOpen ==
    \A d \in Docs :
        lastSyncedContent[d] # Undef => (host = "active" /\ docs[d].open)

\* C26: on a 2xx download the local text is the block-to-text conversion
\* exactly when the body parses as JSON with a blocks field, and the body
\* unchanged in every other case; in all cases the open completes with the
\* document shown and its last-synced record set to that text.
C26_DownloadedText ==
    [][\A d \in Docs, r \in DownloadBodies :
          (OpenRespond(d, r) /\ ~r.rejected /\ r.ok)
          => /\ IF r.isJson /\ r.grove
                THEN /\ ~convertGroveToMd(r.blocks).threw
                     /\ docs'[d].text = convertGroveToMd(r.blocks).text
                ELSE docs'[d].text = r.body
             /\ docs'[d].open
             /\ lastSyncedContent'[d] = docs'[d].text]_vars

\* C25: when deactivate returns, every connection that was registered is
\* disconnected, and the socket registry, the debounce timers, the
\* last-synced map and the version cache are empty, with no debounce timer
\* left to fire.
C25_DeactivateLeavesNothing ==
    [][(host = "active" /\ host' = "deactivated")
       => /\ \A k \in 1..Len(socketState') : socketState'[k].state = "closed"
          /\ \A o \in Origins : sockets'[o] = 0
          /\ changeDebounceTimers' = {}
          /\ timeouts' = {}
          /\ \A d \in Docs : lastSyncedContent'[d] = Undef
          /\ \A o \in Origins : groveVersionCache'[o] = Undef]_vars

\* C40: after deactivate returns, nothing repopulates the cleared state: a
\* save or an open that was awaiting a network response when deactivate ran
\* registers no new connection, emits no reload request and adds no entry to
\* the last-synced map or the version cache.
C40_NothingAfterDeactivate ==
    host = "deactivated"
    => /\ \A o \in Origins : sockets[o] = 0
       /\ emitted = <<>>
       /\ \A d \in Docs : lastSyncedContent[d] = Undef
       /\ \A o \in Origins : groveVersionCache[o] = Undef

-----------------------------------------------------------------------------
(* Claims about the format conversion                                      *)

\* C3: for every document made only of codeTool blocks whose value holds no
\* triple backtick, convertMdToGrove(convertGroveToMd(d)) has as many blocks
\* in the same order, each with the value, pinCode, hide and codeMode of the
\* corresponding block of d, and with its dname whenever it has one.
C3_CodeBlockRoundTrip ==
    (convPc = "encoded"
       /\ \A i \in 1..Len(convIn) :
            convIn[i].type = TypeCodeTool /\ ~Includes(convIn[i].value, Fence))
    => /\ ~convOut.threw
       /\ Len(convOut.blocks) = Len(convIn)
       /\ \A i \in 1..Len(convIn) :
            /\ convOut.blocks[i].value = convIn[i].value
            /\ convOut.blocks[i].pinCode = convIn[i].pinCode
            /\ convOut.blocks[i].hide = convIn[i].hide
            /\ convOut.blocks[i].codeMode = convIn[i].codeMode
            /\ convIn[i].dname # Undef => convOut.blocks[i].dname = convIn[i].dname

\* the field of a block, Undef when the block has no such field
C16_Field(block, name) == IF name \in DOMAIN block THEN block[name] ELSE Undef

\* C16: converting the text "# Title", blank line, "Some text.", blank line
\* and a js-tagged fenced region holding console.log(1) yields exactly three
\* blocks in order: a header block with level 1 and text "Title", a paragraph
\* block with text "Some text.", and a codeTool block with value
\* "console.log(1)", codeMode "javascript2", pinCode false and hide false.
C16_ThreeBlocks ==
    (mdPc = "encoded"
       /\ mdIn = <<MdHeading, MdSomeText, MdFenced(Undef, TagJs, CodeConsoleLog)>>)
    => /\ ~mdOut.threw
       /\ Len(mdOut.blocks) = 3
       /\ mdOut.blocks[1].type = TypeHeader
       /\ C16_Field(mdOut.blocks[1], "level") = <<"#num", "1">>
       /\ C16_Field(mdOut.blocks[1], "text") = WordTitle
       /\ mdOut.blocks[2].type = TypeParagraph
       /\ C16_Field(mdOut.blocks[2], "text") = MdSomeText
       /\ mdOut.blocks[3].type = TypeCodeTool
       /\ mdOut.blocks[3].value = CodeConsoleLog
       /\ mdOut.blocks[3].codeMode = ModeJavascript2
       /\ mdOut.blocks[3].pinCode = False
       /\ mdOut.blocks[3].hide = False

\* C17: convertGroveToMd returns a text and never raises for any document
\* with a blocks list, including blocks of unknown type, blocks with no data
\* field and codeTool blocks with missing fields.
C17_DecodeNeverRaises ==
    convPc \in { "decoded", "encoded" } => ~convMd.threw

\* the paragraphs of mdIn that are fenced regions
C18_Fenced == { i \in 1..Len(mdIn) : mdIn[i] \in MdFencedParts }

\* the paragraphs whose metadata comment cannot be used as a JSON object
C18_Unusable ==
    { MdFenced(options, tag, <<"y">>) :
        options \in { OptionsNull, OptionsBroken, OptionsNumber }, tag \in { TagJs, <<>> } }

\* C18: convertMdToGrove returns a document and never raises for any input
\* text; every fenced region of the text yields a block, in order; the block
\* of a region whose metadata comment cannot be used as a JSON object is a
\* codeTool block with pinCode false, hide false and a fresh dname.
C18_EncodeNeverRaises ==
    mdPc = "encoded"
    => /\ ~mdOut.threw
       /\ Len(mdOut.blocks) = Cardinality(C18_Fenced)
       /\ \A k \in 1..Len(mdOut.blocks) :
            LET part == mdIn[CHOOSE i \in C18_Fenced :
                                Cardinality({ j \in C18_Fenced : j <= i }) = k]
            IN  part \in C18_Unusable
                => /\ mdOut.blocks[k].type = TypeCodeTool
                   /\ mdOut.blocks[k].pinCode = False
                   /\ mdOut.blocks[k].hide = False
                   /\ mdOut.blocks[k].dname[1] = "#uuid"
                   /\ \A j \in 1..Len(mdOut.blocks) :
                        j # k => mdOut.blocks[j].dname # mdOut.blocks[k].dname

\* the blocks of a conversion whose dname was generated
C27_Generated(out) == { i \in 1..Len(out.blocks) : out.blocks[i].usedUuid }

\* C27: converting a text with two or more fenced regions that have no
\* metadata comment yields codeTool blocks whose generated dname values are
\* pairwise distinct, within one conversion and across successive
\* conversions.
C27_DistinctGeneratedNames ==
    (mdPc \in { "encoded", "again" } /\ ~mdOut.threw)
    => /\ \A i, j \in C27_Generated(mdOut) :
            i # j => mdOut.blocks[i].dname # mdOut.blocks[j].dname
       /\ mdPc = "again"
          => \A i \in C27_Generated(mdPrev), j \in C27_Generated(mdOut) :
                mdPrev.blocks[i].dname # mdOut.blocks[j].dname

\* a text of two fenced regions without a metadata comment, converted twice
C27_Witness ==
    /\ mdPc = "again"
    /\ mdIn = <<MdFenced(Undef, TagJs, CodeConsoleLog), MdFenced(Undef, TagJs, CodeConsoleLog)>>
    /\ Cardinality(C27_Generated(mdPrev)) = 2
    /\ Cardinality(C27_Generated(mdOut)) = 2

\* what the claim has the block of a fenced region carry; a dname of Undef
\* stands for a fresh identifier
C30_Expected(part) ==
    IF part = MdFenced(OptionsPinned, ModePython, <<"z">>)
    THEN [codeMode |-> ModePython, dname |-> NameD1, pinCode |-> True, hide |-> False]
    ELSE IF part = MdFenced(OptionsMode, <<>>, <<"z">>)
    THEN [codeMode |-> ModePython, dname |-> Undef, pinCode |-> False, hide |-> True]
    ELSE [codeMode |-> ModeJavascript2, dname |-> Undef, pinCode |-> False, hide |-> False]

\* C30: for each fenced region matched by convertMdToGrove exactly one
\* codeTool block is emitted, in source order, whose codeMode is the fence
\* language tag mapped through the alias table when a tag is present,
\* otherwise the metadata codeMode when present, otherwise "javascript2";
\* whose dname, pinCode and hide are the metadata values when present and
\* otherwise a fresh identifier, false and false; and the returned document
\* always carries version "2.19.1".
C30_OneBlockPerFence ==
    mdPc = "encoded"
    => /\ ~mdOut.threw
       /\ mdOut.version = <<"2", ".", "1", "9", ".", "1">>
       /\ Len(mdOut.blocks) = Cardinality(C18_Fenced)
       /\ \A k \in 1..Len(mdOut.blocks) :
            LET part == mdIn[CHOOSE i \in C18_Fenced :
                                Cardinality({ j \in C18_Fenced : j <= i }) = k]
                expected == C30_Expected(part)
            IN  /\ mdOut.blocks[k].type = TypeCodeTool
                /\ mdOut.blocks[k].codeMode = expected.codeMode
                /\ mdOut.blocks[k].pinCode = expected.pinCode
                /\ mdOut.blocks[k].hide = expected.hide
                /\ IF expected.dname = Undef
                   THEN /\ mdOut.blocks[k].dname[1] = "#uuid"
                        /\ \A j \in 1..Len(mdOut.blocks) :
                             j # k => mdOut.blocks[j].dname # mdOut.blocks[k].dname
                   ELSE mdOut.blocks[k].dname = expected.dname

\* what the claim has a block render as: nothing for a block without text
C29_Rendering(block) ==
    IF block.type = TypeCodeTool THEN RenderBlock(block).md
    ELSE IF block.type = TypeHeader
    THEN [i \in 1..ToCount(block.level) |-> "#"] \o <<" ">> \o block.text
    ELSE IF block.text = Undef THEN <<>>
    ELSE block.text

\* md is one comment line immediately followed by a fenced region that ends md
C29_CommentThenFence(md) ==
    /\ HasAt(md, 1, CommentOpen)
    /\ \E p \in 5..Len(md) :
          /\ HasAt(md, p, CommentClose \o <<NL>> \o Fence)
          /\ \A k \in 1..p : md[k] # NL
    /\ HasAt(md, Len(md) - 3, <<NL>> \o Fence)

\* the parts in order with exactly one blank line between neighbours
C29_JoinBlankLine(parts) ==
    Concat([i \in 1..Len(parts) |-> IF i = 1 THEN parts[i] ELSE <<NL, NL>> \o parts[i]])

\* C29: convertGroveToMd renders the blocks in document order, drops every
\* block whose rendering is empty, and joins the remaining renderings with
\* exactly one blank line; a codeTool block renders as a metadata comment line
\* immediately followed by its fenced region, a header as level-many '#'
\* characters, a space and the text, a paragraph as its text, and a block of
\* unknown type as its text field if it has one.
C29_RenderedInOrder ==
    convPc \in { "decoded", "encoded" }
    => /\ ~convMd.threw
       /\ convMd.text =
             C29_JoinBlankLine(SelectSeq([i \in 1..Len(convIn) |-> C29_Rendering(convIn[i])],
                                         LAMBDA r : r # <<>>))
       /\ \A i \in 1..Len(convIn) :
            convIn[i].type = TypeCodeTool => C29_CommentThenFence(C29_Rendering(convIn[i]))

-----------------------------------------------------------------------------
(* Claims about the path codec                                             *)

\* C9: for every origin whose host and port hold no underscore and every
\* remote path /api/grove/file/{projectId}/{fileName...}, parsing the local
\* path created for (origin, path) returns the origin as baseUrl, the path's
\* fifth segment as projectId and the later segments joined by "/" as
\* fileName.
C9_PathRoundTrip ==
    (pathPc = "decoded"
       /\ ~Includes(pathIn.host, <<"_">>) /\ ~Includes(pathIn.port, <<"_">>))
    => /\ pathOut.threw = FALSE
       /\ pathOut.baseUrl = pathIn.origin
       /\ pathOut.projectId = Split(pathIn.path, "/")[5]
       /\ pathOut.fileName = Join(SliceFrom(Split(pathIn.path, "/"), 6), <<"/">>)

\* C10: for http://localhost:3000 and https://graphxr.kineviz.com and the
\* remote path /api/grove/file/abc123/notebooks/demo, parsing the created
\* local path returns exactly that origin, projectId "abc123" and fileName
\* "notebooks/demo".
C10_RepresentativePaths ==
    (pathPc = "decoded"
       /\ pathIn.origin \in { OriginLocalhost3000, OriginKineviz }
       /\ pathIn.path = RemotePathDemo)
    => /\ pathOut.threw = FALSE
       /\ pathOut.baseUrl = pathIn.origin
       /\ pathOut.projectId = <<"a", "b", "c", "1", "2", "3">>
       /\ pathOut.fileName = <<"n", "o", "t", "e", "b", "o", "o", "k", "s", "/", "d", "e", "m", "o">>

\* C37: an upload a save of a downloaded document sends targets the origin,
\* projectId and fileName the document was opened with, and a save of a file
\* no open request opened as a document (a file outside the working directory
\* whose path holds its name, a snapshot under backups) sends no upload.
C37_UploadTargetsOpenRequest ==
    /\ (pathPc = "saved" /\ pathUpload.sent)
       => /\ pathUpload.target.baseUrl = pathIn.origin
          /\ GroveFilePrefix \o pathUpload.target.projectId \o <<"/">>
             \o pathUpload.target.fileName = pathIn.path
    /\ pathPc = "savedOther" => ~pathUpload.sent

C10_Witness ==
    /\ pathPc = "decoded"
    /\ pathIn.origin = OriginLocalhost3000
    /\ pathIn.path = RemotePathDemo
    /\ pathOut.baseUrl = <<"h", "t", "t", "p", ":", "/", "/", "l", "o", "c", "a", "l", "h", "o", "s", "t", ":", "3", "0", "0", "0">>

-----------------------------------------------------------------------------
(* Claims about the version comparison                                     *)

C11_Component(parts, i) == IF i <= Len(parts) THEN DecimalValue(parts[i]) ELSE 0

\* the place of a version in major-then-minor-then-patch order; every
\* component of VersionComponents is below 100
C11_Rank(text) ==
    LET Weigh(parts) ==
            10000 * C11_Component(parts, 1) + 100 * C11_Component(parts, 2)
            + C11_Component(parts, 3)
    IN  Weigh(Split(text, "."))

\* C11: for version strings of one to three dot-separated non-negative
\* integers, isVersionAtLeast(v, min) is true exactly when the triple
\* (major, minor, patch) of v, missing components taken as 0, is greater
\* than or equal to that of min in major-then-minor-then-patch order; 2.0.0
\* satisfies a 2.0.0 minimum and 1.9.9 does not.
C11_VersionOrder ==
    verPc = "compared"
    => /\ verOut = (C11_Rank(verIn.version) >= C11_Rank(verIn.minVersion))
       /\ (verIn.version = Version200 /\ verIn.minVersion = DirectMarkdownVersion)
          => verOut
       /\ (verIn.version = Version199 /\ verIn.minVersion = DirectMarkdownVersion)
          => ~verOut

C11_Witness ==
    /\ verPc = "compared"
    /\ verIn.version = Version199
    /\ verIn.minVersion = DirectMarkdownVersion
    /\ verOut = FALSE

-----------------------------------------------------------------------------
(* Claims about the migration                                              *)

\* C19: every run of migrateApiKeys that returns leaves the completion flag
\* set, whether the legacy map was empty, every store succeeded or some store
\* failed; a run that starts with the flag set returns at once and writes
\* nothing to the vault and nothing to the settings.
C19_FlagSetOnReturn ==
    /\ [](migration.pc = "returned" => globalState = TRUE)
    /\ [][(MigrateStart /\ globalState = TRUE)
           => /\ migration'.pc = "returned"
              /\ migration'.writes = <<>>
              /\ secrets' = secrets
              /\ apiKeysSetting' = apiKeysSetting]_vars

\* a first run that stored one key, failed to store the other and returned
C19_Witness ==
    /\ migration.pc = "returned"
    /\ migration.runs = 1
    /\ migration.migratedCount = 1 /\ migration.errors = 1
    /\ globalState = TRUE

\* C20: after the first migration run over a non-empty legacy map, every
\* origin of the map has its secret stored in the vault under the prefixed
\* key for that origin, and the legacy map in the settings is empty.
C20_AllKeysMigrated ==
    (migration.pc = "returned" /\ migration.runs = 1 /\ migration.oldApiKeys # <<>>)
    => /\ \A i \in 1..Len(migration.oldApiKeys) :
            /\ migration.oldApiKeys[i].origin \in secrets
            /\ \E w \in 1..Len(migration.writes) :
                    /\ migration.writes[w].to = "vault"
                    /\ migration.writes[w].key
                           = API_KEY_PREFIX \o migration.oldApiKeys[i].origin
                    /\ migration.writes[w].value = migration.oldApiKeys[i].apiKey
                    /\ migration.writes[w].ok
       /\ apiKeysSetting = <<>>

\* C38: migration never loses a secret: at every point during and after a
\* run of migrateApiKeys, each secret of the legacy map the run read was
\* stored in the vault under the prefixed key of its origin, or is still an
\* entry of the map in the settings, also when a store into the vault fails.
C38_NoSecretLost ==
    \A i \in 1..Len(migration.oldApiKeys) :
        \/ \E w \in 1..Len(migration.writes) :
              /\ migration.writes[w].to = "vault"
              /\ migration.writes[w].key = API_KEY_PREFIX \o migration.oldApiKeys[i].origin
              /\ migration.writes[w].value = migration.oldApiKeys[i].apiKey
              /\ migration.writes[w].ok
        \/ \E j \in 1..Len(apiKeysSetting) : apiKeysSetting[j] = migration.oldApiKeys[i]

-----------------------------------------------------------------------------
(* Claims about the deep links                                             *)

\* C23: handling a deep-link URI that lacks the open parameter or lacks the
\* baseUrl parameter performs no action: the pending slot keeps its value, no
\* window is opened, no URI is re-triggered or scheduled, and openGroveFile
\* is not called, so no request is sent and no error raised.
C23_IncompleteUriIsNoOp ==
    [][\A uri \in inbox, inWorkingDir \in BOOLEAN :
          (HandleUri(uri, inWorkingDir) /\ (uri.open = Null \/ uri.baseUrl = Null))
          => /\ pendingFile' = pendingFile
             /\ windowsOpened' = windowsOpened
             /\ delayed' = delayed
             /\ retriggers' = retriggers
             /\ openRequests' = openRequests]_vars

\* C24: handling a URI that carries retry=1 schedules and re-triggers no
\* URI, and the URIs re-triggered for one deep link are at most one,
\* whichever windows handle the deep link and the retry.
C24_AtMostOneRetrigger ==
    /\ [](\A l \in Links : retriggers[l] <= 1)
    /\ [][\A uri \in inbox, inWorkingDir \in BOOLEAN :
             (HandleUri(uri, inWorkingDir) /\ uri.retry = RetryOne)
             => /\ delayed' = delayed
                /\ retriggers' = retriggers
                /\ inbox' = inbox \ { uri }]_vars

\* one deep link arrived; a window outside the working directory handled it
\* and re-triggered it, and a window outside the working directory handled
\* the retry as well
C24_Witness ==
    /\ arrived = 1
    /\ retriggers[1] = 1
    /\ windowsOpened = 2
    /\ inbox = {}
    /\ delayed = {}

\* C36: one deep-link open request leads to at most one download of the
\* file, whichever window handles it and whether the request reaches the
\* working-directory window through the pending slot, the re-triggered retry
\* URI, or several of these: the calls of openGroveFile that reach the
\* download are never more than the deep links delivered.
C36_OneDownloadPerLink ==
    Cardinality({ i \in 1..Len(openRequests) : ~openRequests[i].threw }) <= arrived

-----------------------------------------------------------------------------
(* Claims about the code modes                                             *)

\* C28: convertCodeModeMdToGrove(convertCodeModeToMd(m)) = m for m =
\* "javascript2", and every mode other than "javascript2" and "js" is
\* returned unchanged by convertCodeModeToMd and by convertCodeModeMdToGrove.
C28_AliasSymmetry ==
    /\ (modePc = "grove" /\ modeIn = ModeJavascript2) => modeGrove = modeIn
    /\ (modePc = "md" /\ modeIn \notin { ModeJavascript2, TagJs }) => modeMd = modeIn
    /\ (modePc = "fromMd" /\ modeIn \notin { ModeJavascript2, TagJs })
       => modeGrove = modeIn

\* "javascript2" went to "js" and back
C28_Witness ==
    /\ modePc = "grove"
    /\ modeIn = ModeJavascript2
    /\ modeMd = TagJs
    /\ modeGrove = ModeJavascript2

=============================================================================
